---- MODULE Spec2Model ----
(***************************************************************************)
(* Pull-request tools of mcp_azure_devops (features/pull_requests).         *)
(*                                                                         *)
(* A Python str is a sequence of one-character strings; a text (a message  *)
(* or a tool result) is a sequence of tokens that are the literal pieces   *)
(* of the f-string that built it, with the characters of an interpolated   *)
(* reviewer reference in between.  An Optional value is <<>> for None and  *)
(* <<v>> for the value v.  Every implementation function is an operator    *)
(* from its arguments and the responses of the remote service to the list  *)
(* of remote calls it issues and its outcome (a returned value or a raised *)
(* exception with its message).                                            *)
(***************************************************************************)
EXTENDS Integers, Sequences, FiniteSets, TLC

VARIABLES
    pc,      \* "idle": no tool call in progress; "waiting": the call in
             \* progress has a further remote call to make; "done": it has run
    op,      \* the call that ran last: its name and its arguments
    calls,   \* the remote calls that call issued, in order, with their responses
    result,  \* what that call returned or raised
    remote,  \* the pull request as the remote service holds it
    inflight \* tool calls that run side by side: how far each one has got

vars == <<pc, op, calls, result, remote, inflight>>

-----------------------------------------------------------------------------
(* Bounds of the model *)

\* longest reviewer reference enumerated character by character
MaxRefLen == 5

\* most reviewers, required and optional together, of one create call
MaxReviewers == 3

-----------------------------------------------------------------------------
(* Values *)

None == <<>>
Some(v) == <<v>>

\* an outcome of a function: a returned value, or a raised exception and str(e)
Return(v) == [raised |-> FALSE, val |-> v]
Raise(m) == [raised |-> TRUE, val |-> m]

SeqsUpTo(S, n) == UNION {[1..k -> S] : k \in 0..n}

\* sub occurs in text as a contiguous run (Python's `sub in text`)
Contains(text, sub) ==
    \E i \in 0..(Len(text) - Len(sub)) :
        \A j \in 1..Len(sub) : text[i + j] = sub[j]

StartsWith(text, pre) ==
    /\ Len(pre) <= Len(text)
    /\ \A j \in 1..Len(pre) : text[j] = pre[j]

-----------------------------------------------------------------------------
(* Reviewer references: tools.py, _is_guid and _is_email *)

HexDigits ==
    {"0", "1", "2", "3", "4", "5", "6", "7", "8", "9",
     "a", "b", "c", "d", "e", "f", "A", "B", "C", "D", "E", "F"}

\* what \s matches in a str pattern: the 29 characters c with c.isspace().
\* A character that a string of this module cannot hold is written as its
\* Python escape, so "\\x0b" is the one character '\x0b'.
Whitespace ==
    {" ", "\t", "\n", "\r", "\f", "\\x0b",
     "\\x1c", "\\x1d", "\\x1e", "\\x1f", "\\x85", "\\xa0",
     "\\u1680", "\\u2000", "\\u2001", "\\u2002", "\\u2003", "\\u2004",
     "\\u2005", "\\u2006", "\\u2007", "\\u2008", "\\u2009", "\\u200a",
     "\\u2028", "\\u2029", "\\u202f", "\\u205f", "\\u3000"}

\* the positions of the four dashes of 8-4-4-4-12
DashPositions == {9, 14, 19, 24}

GuidLen == 36

_is_guid_lowercase_only(s) ==
    /\ Len(s) = GuidLen
    /\ \A i \in 1..GuidLen :
          IF i \in DashPositions THEN s[i] = "-"
          ELSE s[i] \in HexDigits \ {"A", "B", "C", "D", "E", "F"}

\* re.fullmatch(r"[0-9a-fA-F]{8}-[0-9a-fA-F]{4}-[0-9a-fA-F]{4}-[0-9a-fA-F]{4}-[0-9a-fA-F]{12}", s)
_is_guid(s) ==
    /\ Len(s) = GuidLen
    /\ \A i \in 1..GuidLen :
          IF i \in DashPositions THEN s[i] = "-" ELSE s[i] \in HexDigits

\* [^@\s]+ : a non-empty run s[a..b] without "@" and without whitespace
NoAtNoSpace(s, a, b) ==
    /\ a <= b
    /\ \A k \in a..b : s[k] # "@" /\ s[k] \notin Whitespace

_is_email_no_dot(s) ==
    \E i \in 1..Len(s) :
        /\ s[i] = "@"
        /\ NoAtNoSpace(s, 1, i - 1)
        /\ NoAtNoSpace(s, i + 1, Len(s))

\* re.fullmatch(r"[^@\s]+@[^@\s]+\.[^@\s]+", s): s = local "@" x "." y
_is_email(s) ==
    \E i \in 1..Len(s) : \E j \in 1..Len(s) :
        /\ i < j
        /\ s[i] = "@"
        /\ s[j] = "."
        /\ NoAtNoSpace(s, 1, i - 1)
        /\ NoAtNoSpace(s, i + 1, j - 1)
        /\ NoAtNoSpace(s, j + 1, Len(s))

-----------------------------------------------------------------------------
(* The identity service as _resolve_reviewer_guid sees it *)

\* the GUID whose hex digits are all c
Guid(c) == [i \in 1..GuidLen |-> IF i \in DashPositions THEN "-" ELSE c]

\* ids of the identities the service knows
IdentityIds == {Guid("1"), Guid("2")}

\* str(e) of the errors the remote services raise
RemoteErrors == {<<"HTTP 401 Unauthorized">>, <<"TF400813: not authorized">>}

\* the responses of identity_client.read_identities: it raises, or returns a
\* list of identities (each given by its id), possibly empty
LookupResponses ==
    {[raises |-> TRUE, msg |-> m, ids |-> <<>>] : m \in RemoteErrors}
    \cup {[raises |-> FALSE, msg |-> <<>>, ids |-> l] :
            l \in {<<>>, <<Guid("1")>>, <<Guid("2"), Guid("1")>>}}

LookupFails(r) == r.raises \/ Len(r.ids) = 0

_resolve_reviewer_guid_raw_error(reviewer, lookup) ==
    IF _is_guid(reviewer)
    THEN [calls |-> <<>>, out |-> Return(reviewer)]
    ELSE
      LET call == [api |-> "read_identities",
                   search_filter |-> IF _is_email(reviewer) THEN "MailAddress"
                                     ELSE "DisplayName",
                   filter_value |-> reviewer,
                   ret |-> lookup]
      IN  IF lookup.raises THEN [calls |-> <<call>>, out |-> Raise(lookup.msg)]
          ELSE IF Len(lookup.ids) > 0
               THEN [calls |-> <<call>>, out |-> Return(lookup.ids[1])]
               ELSE [calls |-> <<call>>,
                     out |-> Raise(<<"Could not resolve reviewer '">> \o reviewer
                                   \o <<"' to a GUID.">>)]

\* tools.py _resolve_reviewer_guid; `lookup` is the response of the one
\* read_identities call it may issue
_resolve_reviewer_guid(reviewer, lookup) ==
    IF _is_guid(reviewer)
    THEN [calls |-> <<>>, out |-> Return(reviewer)]
    ELSE
      LET call == [api |-> "read_identities",
                   search_filter |-> IF _is_email(reviewer) THEN "MailAddress"
                                     ELSE "DisplayName",
                   filter_value |-> reviewer,
                   ret |-> lookup]
          \* the body of the try block
          tried ==
              IF lookup.raises THEN Raise(lookup.msg)
              ELSE IF Len(lookup.ids) > 0 THEN Return(lookup.ids[1])
              ELSE Raise(<<"Could not resolve reviewer '">> \o reviewer
                         \o <<"' to a GUID.">>)
      IN  [calls |-> <<call>>,
           out |-> IF tried.raised
                   THEN Raise(<<"Failed to resolve reviewer '">> \o reviewer
                              \o <<"': ">> \o tried.val)
                   ELSE tried]

-----------------------------------------------------------------------------
(* Client handles: common.py *)

\* what get_connection() and the connection's client factory give one call
\* of get_git_client or get_identity_client
ClientStates == {"no_connection", "no_client", "ok"}

NoConnectionMessage ==
    <<"Azure DevOps PAT or organization URL not found in environment variables.">>

\* common.py get_git_client
get_git_client(c) ==
    IF c = "no_connection" THEN Raise(NoConnectionMessage)
    ELSE IF c = "no_client" THEN Raise(<<"Failed to get git client.">>)
    ELSE Return("git_client")

\* common.py get_identity_client
get_identity_client(c) ==
    IF c = "no_connection" THEN Raise(NoConnectionMessage)
    ELSE IF c = "no_client" THEN Raise(<<"Failed to get identity client.">>)
    ELSE Return("identity_client")

\* `except AzureDevOpsClientError as e: return f"Error: {str(e)}"`
ClientErrorText(msg) == <<"Error", ": ">> \o msg

-----------------------------------------------------------------------------
(* Formatting: tools.py _format_pull_request *)

BoolStr(b) == IF b THEN "True" ELSE "False"

DecimalDigits == <<"0", "1", "2", "3", "4", "5", "6", "7", "8", "9">>

\* the decimal numeral of a natural number
RECURSIVE NatStr(_)
NatStr(n) ==
    IF n < 10 THEN DecimalDigits[n + 1]
    ELSE NatStr(n \div 10) \o DecimalDigits[(n % 10) + 1]

\* str(n) of an int, as the f-strings apply it
IntStr(n) == IF n < 0 THEN "-" \o NatStr(0 - n) ELSE NatStr(n)

\* vote_map.get(vote, f'unknown ({vote})')
VoteStr(vote) ==
    CASE vote = 10 -> <<"approved">>
      [] vote = 5 -> <<"approved with suggestions">>
      [] vote = 0 -> <<"no vote">>
      [] vote = -5 -> <<"waiting for author">>
      [] vote = -10 -> <<"rejected">>
      [] OTHER -> <<"unknown (", IntStr(vote), ")">>

RECURSIVE ReviewerLines(_)
ReviewerLines(reviewers) ==
    IF reviewers = <<>> THEN <<>>
    ELSE <<"\n", "- ", "Reviewer: ">> \o Head(reviewers).display_name
         \o <<", Is Required: ", BoolStr(Head(reviewers).is_required), ", Vote: ">>
         \o VoteStr(Head(reviewers).vote)
         \o ReviewerLines(Tail(reviewers))

\* tools.py _format_work_item_ref
_format_work_item_ref(work_item_ref) ==
    <<"- ID: ">> \o work_item_ref.id \o <<" (URL: ">> \o work_item_ref.url \o <<")">>

RECURSIVE WorkItemLines(_)
WorkItemLines(work_items) ==
    IF work_items = <<>> THEN <<>>
    ELSE <<"\n">> \o _format_work_item_ref(Head(work_items))
         \o WorkItemLines(Tail(work_items))

\* tools.py _format_pull_request.  A status or merge status that is "" stands
\* for every value the `and pull_request.<field>` test takes as false.
_format_pull_request(pr) ==
    <<"# Pull request: ">> \o pr.title
    \o <<"\n", "ID: ", IntStr(pr.pull_request_id)>>
    \o <<"\n", "Is Draft: ", BoolStr(pr.is_draft)>>
    \o <<"\n", "Source Ref Name: ">> \o pr.source_ref_name
    \o <<"\n", "Target Ref Name: ">> \o pr.target_ref_name
    \o (IF pr.status # "" THEN <<"\n", "Status: ", pr.status>> ELSE <<>>)
    \o (IF pr.merge_status # ""
        THEN <<"\n", "Merge Status: ", pr.merge_status>> ELSE <<>>)
    \o (IF pr.reviewers # <<>>
        THEN <<"\n", "Reviewers:">> \o ReviewerLines(pr.reviewers) ELSE <<>>)
    \o (IF pr.work_item_refs # <<>>
        THEN <<"\n", "Linked Work Items:">> \o WorkItemLines(pr.work_item_refs)
        ELSE <<>>)
    \o (IF pr.description # <<>>
        THEN <<"\n", "Description: ">> \o pr.description ELSE <<>>)

-----------------------------------------------------------------------------
(* Creation: tools.py _create_pull_request_impl and the create_pull_request tool *)

\* One of the two for loops over a reviewer list: every entry is resolved in
\* list order and the first failure leaves the loop (and the try block).
\* lookups[i] is what read_identities answers if entry i is looked up.
RECURSIVE ResolveReviewers(_, _, _)
ResolveReviewers(reviewers, lookups, is_required) ==
    IF reviewers = <<>> THEN [calls |-> <<>>, out |-> Return(<<>>)]
    ELSE
      LET first == _resolve_reviewer_guid(Head(reviewers), Head(lookups))
      IN  IF first.out.raised THEN first
          ELSE
            LET rest == ResolveReviewers(Tail(reviewers), Tail(lookups), is_required)
            IN  [calls |-> first.calls \o rest.calls,
                 out |-> IF rest.out.raised THEN rest.out
                         ELSE Return(<<[id |-> first.out.val,
                                        is_required |-> is_required]>>
                                     \o rest.out.val)]

\* `if optional_reviewers:` is false for None and for the empty list
ListOrEmpty(optional_list) ==
    IF optional_list = None THEN <<>> ELSE optional_list[1]

GitPullRequestToCreate(a, resolved_reviewers) ==
    [title |-> a.title,
     description |-> a.description,
     source_ref_name |-> <<"refs/heads/">> \o a.source_branch,
     target_ref_name |-> <<"refs/heads/">> \o a.target_branch,
     is_draft |-> a.is_draft,
     reviewers |-> resolved_reviewers]

\* What the remote service answers to create_pull_request: it raises, or
\* returns the new pull request (active, with the next id, nobody has voted,
\* no work item linked), its first merge queued or not yet reported.
CreateResponses ==
    {[raises |-> TRUE, msg |-> m, merge_status |-> ""] : m \in RemoteErrors}
    \cup {[raises |-> FALSE, msg |-> <<>>, merge_status |-> m] :
            m \in {"", "queued"}}

NewPullRequestId == 43

RECURSIVE ReviewersAsReturned(_)
ReviewersAsReturned(reviewers) ==
    IF reviewers = <<>> THEN <<>>
    ELSE <<[id |-> Head(reviewers).id,
            display_name |-> <<"user ">> \o Head(reviewers).id,
            is_required |-> Head(reviewers).is_required,
            vote |-> 0]>>
         \o ReviewersAsReturned(Tail(reviewers))

CreatedPullRequest(pr, created) ==
    [title |-> pr.title,
     description |-> pr.description,
     source_ref_name |-> pr.source_ref_name,
     target_ref_name |-> pr.target_ref_name,
     is_draft |-> pr.is_draft,
     reviewers |-> ReviewersAsReturned(pr.reviewers),
     pull_request_id |-> NewPullRequestId,
     status |-> "active",
     merge_status |-> created.merge_status,
     work_item_refs |-> <<>>]

\* lines 346-363: the payload, the create_pull_request call and the result
\* text, once both loops have run (opt and req are what they produced)
CreateFromResolved(a, opt, req, created) ==
    IF opt.out.raised
    THEN [calls |-> opt.calls,
          out |-> Return(<<"Error", " creating pull request: ">> \o opt.out.val)]
    ELSE IF req.out.raised
    THEN [calls |-> opt.calls \o req.calls,
          out |-> Return(<<"Error", " creating pull request: ">> \o req.out.val)]
    ELSE
      LET pr == GitPullRequestToCreate(a, opt.out.val \o req.out.val)
          call == [api |-> "create_pull_request",
                   git_pull_request_to_create |-> pr,
                   project |-> a.project_id_or_name,
                   repository_id |-> a.repository_id,
                   ret |-> created]
      IN  [calls |-> opt.calls \o req.calls \o <<call>>,
           out |-> IF created.raises
                   THEN Return(<<"Error", " creating pull request: ">> \o created.msg)
                   ELSE Return(_format_pull_request(CreatedPullRequest(pr, created)))]

\* a loop that drops the entries it cannot resolve instead of failing
RECURSIVE ResolveReviewersSkipping(_, _, _)
ResolveReviewersSkipping(reviewers, lookups, is_required) ==
    IF reviewers = <<>> THEN [calls |-> <<>>, out |-> Return(<<>>)]
    ELSE
      LET first == _resolve_reviewer_guid(Head(reviewers), Head(lookups))
          rest == ResolveReviewersSkipping(Tail(reviewers), Tail(lookups), is_required)
      IN  [calls |-> first.calls \o rest.calls,
           out |-> IF first.out.raised THEN rest.out
                   ELSE Return(<<[id |-> first.out.val,
                                  is_required |-> is_required]>> \o rest.out.val)]

_create_pull_request_impl_partial_reviewers(a, lookups, created) ==
    LET opt_list == ListOrEmpty(a.optional_reviewers)
        req_list == ListOrEmpty(a.required_reviewers)
    IN  CreateFromResolved(
            a,
            ResolveReviewersSkipping(opt_list, SubSeq(lookups, 1, Len(opt_list)), FALSE),
            ResolveReviewersSkipping(
                req_list, SubSeq(lookups, Len(opt_list) + 1, Len(lookups)), TRUE),
            created)

\* a loop that looks every entry up before it reports the first failure
RECURSIVE ResolveReviewersEager(_, _, _)
ResolveReviewersEager(reviewers, lookups, is_required) ==
    IF reviewers = <<>> THEN [calls |-> <<>>, out |-> Return(<<>>)]
    ELSE
      LET first == _resolve_reviewer_guid(Head(reviewers), Head(lookups))
          rest == ResolveReviewersEager(Tail(reviewers), Tail(lookups), is_required)
      IN  [calls |-> first.calls \o rest.calls,
           out |-> IF first.out.raised THEN first.out
                   ELSE IF rest.out.raised THEN rest.out
                   ELSE Return(<<[id |-> first.out.val,
                                  is_required |-> is_required]>> \o rest.out.val)]

_create_pull_request_impl_no_short_circuit(a, lookups, created) ==
    LET opt_list == ListOrEmpty(a.optional_reviewers)
        req_list == ListOrEmpty(a.required_reviewers)
    IN  CreateFromResolved(
            a,
            ResolveReviewersEager(opt_list, SubSeq(lookups, 1, Len(opt_list)), FALSE),
            ResolveReviewersEager(
                req_list, SubSeq(lookups, Len(opt_list) + 1, Len(lookups)), TRUE),
            created)

_create_pull_request_impl_all_required(a, lookups, created) ==
    LET opt_list == ListOrEmpty(a.optional_reviewers)
        req_list == ListOrEmpty(a.required_reviewers)
    IN  CreateFromResolved(
            a,
            ResolveReviewers(opt_list, SubSeq(lookups, 1, Len(opt_list)), TRUE),
            ResolveReviewers(
                req_list, SubSeq(lookups, Len(opt_list) + 1, Len(lookups)), TRUE),
            created)

\* tools.py _create_pull_request_impl.  lookups answers the entries of
\* optional_reviewers, then those of required_reviewers (the order of the two
\* loops); created is what git_client.create_pull_request does.
_create_pull_request_impl(a, lookups, created) ==
    LET opt_list == ListOrEmpty(a.optional_reviewers)
        req_list == ListOrEmpty(a.required_reviewers)
    IN  CreateFromResolved(
            a,
            ResolveReviewers(opt_list, SubSeq(lookups, 1, Len(opt_list)), FALSE),
            ResolveReviewers(
                req_list, SubSeq(lookups, Len(opt_list) + 1, Len(lookups)), TRUE),
            created)

\* the create_pull_request tool: both clients, then the implementation
create_pull_request(a, git, identity, lookups, created) ==
    IF get_git_client(git).raised
    THEN [calls |-> <<>>, out |-> Return(ClientErrorText(get_git_client(git).val))]
    ELSE IF get_identity_client(identity).raised
    THEN [calls |-> <<>>,
          out |-> Return(ClientErrorText(get_identity_client(identity).val))]
    ELSE _create_pull_request_impl(a, lookups, created)

-----------------------------------------------------------------------------
(* The remote git service as the update operations see it *)

PullRequestId == 42

\* the GitPullRequest the service returns for the pull request it holds
RemotePullRequest(r, closed_by) ==
    [title |-> r.title,
     description |-> r.description,
     source_ref_name |-> <<"refs/heads/feature">>,
     target_ref_name |-> <<"refs/heads/main">>,
     is_draft |-> FALSE,
     reviewers |-> <<>>,
     pull_request_id |-> PullRequestId,
     status |-> r.status,
     merge_status |-> r.merge_status,
     work_item_refs |-> r.work_item_refs,
     last_merge_source_commit |-> r.last_merge_source_commit,
     closed_by |-> closed_by]

\* git_client.get_pull_request: it raises, returns nothing, or returns the
\* pull request as it is when the call arrives
ReadResponses ==
    {[raises |-> TRUE, msg |-> m, found |-> FALSE] : m \in RemoteErrors}
    \cup {[raises |-> FALSE, msg |-> <<>>, found |-> f] : f \in BOOLEAN}

\* what the call returns to the handler.  The handler keeps the answer while
\* it waits for its next call: a read answered earlier carries the pull
\* request it returned then, whatever the service holds since.
RemoteGet(r, read) ==
    [raises |-> read.raises,
     msg |-> read.msg,
     pr |-> IF read.raises \/ ~read.found THEN None
            ELSE IF "pr" \in DOMAIN read THEN Some(read.pr)
            ELSE Some(RemotePullRequest(r, None))]

\* the answer the first call of the log got, as the handler holds it
Answered(log) ==
    [raises |-> FALSE, msg |-> <<>>, found |-> TRUE, pr |-> log[1].ret.pr[1]]

\* the position of the first update_pull_request among the calls a handler
\* makes, 0 if it makes none
FirstWrite(log) ==
    IF \E i \in 1..Len(log) : log[i].api = "update_pull_request"
    THEN CHOOSE i \in 1..Len(log) :
            /\ log[i].api = "update_pull_request"
            /\ \A j \in 1..(i - 1) : log[j].api # "update_pull_request"
    ELSE 0

\* git_client.update_pull_request: it raises and changes nothing, or sets
\* the title, description and status the payload carries and returns the
\* pull request, closed by somebody or by nobody.  A completion is a merge
\* the service may not have finished when it answers: the pull request it
\* returns is then still in the status it had.  r is the pull request as the
\* service holds it when the write arrives.
WriteResponses ==
    {[raises |-> TRUE, msg |-> m, closed_by |-> None, merged |-> FALSE] :
        m \in RemoteErrors}
    \cup {[raises |-> FALSE, msg |-> <<>>, closed_by |-> c, merged |-> d] :
            c \in {None, Some([display_name |-> <<"Alice">>])}, d \in BOOLEAN}

StoredFields == {"title", "description", "status"}

RemoteAfterUpdate(r, payload, write) ==
    IF write.raises THEN r
    ELSE [f \in DOMAIN r |->
            IF f \in StoredFields \cap DOMAIN payload
               /\ ~(f = "status" /\ payload[f] = "completed" /\ ~write.merged)
            THEN payload[f] ELSE r[f]]

RemoteUpdate(r, payload, write) ==
    [raises |-> write.raises,
     msg |-> write.msg,
     pr |-> IF write.raises THEN None
            ELSE Some(RemotePullRequest(RemoteAfterUpdate(r, payload, write),
                                        write.closed_by))]

-----------------------------------------------------------------------------
(* Updates: tools.py _update_pull_request_core_impl and its callers *)

NoUpdateParameters == <<"Error", ": ", "No update parameters provided">>

NoneHasNoAttribute ==
    <<"'NoneType' object has no attribute 'last_merge_source_commit'">>

SuppliedFields_truthy(a) ==
    (IF a.title # None /\ a.title[1] # <<>> THEN "title" :> a.title[1] ELSE <<>>)
    @@ (IF a.description # None /\ a.description[1] # <<>>
        THEN "description" :> a.description[1] ELSE <<>>)
    @@ (IF a.completion_options # None
        THEN "completion_options" :> a.completion_options[1] ELSE <<>>)
    @@ (IF a.status # None THEN "status" :> a.status[1] ELSE <<>>)

\* lines 389-397: the fields that are not None
SuppliedFields(a) ==
    (IF a.title # None THEN "title" :> a.title[1] ELSE <<>>)
    @@ (IF a.description # None THEN "description" :> a.description[1] ELSE <<>>)
    @@ (IF a.completion_options # None
        THEN "completion_options" :> a.completion_options[1] ELSE <<>>)
    @@ (IF a.status # None THEN "status" :> a.status[1] ELSE <<>>)

_update_pull_request_core_impl_all_fields(a, r, read, write) ==
    LET payload == [title |-> a.title, description |-> a.description,
                    completion_options |-> a.completion_options, status |-> a.status]
        written == RemoteUpdate(r, SuppliedFields(a), write)
        write_call == [api |-> "update_pull_request",
                       project |-> a.project_id_or_name,
                       repository_id |-> a.repository_id,
                       pull_request_id |-> a.pull_request_id,
                       git_pull_request_to_update |-> payload,
                       ret |-> written]
    IN  [calls |-> <<write_call>>,
         out |-> IF written.raises THEN Raise(written.msg) ELSE Return(written.pr[1]),
         remote |-> RemoteAfterUpdate(r, SuppliedFields(a), write)]

_update_pull_request_core_impl_no_read(a, r, read, write) ==
    LET update_data == SuppliedFields(a)
        written == RemoteUpdate(r, update_data, write)
        write_call == [api |-> "update_pull_request",
                       project |-> a.project_id_or_name,
                       repository_id |-> a.repository_id,
                       pull_request_id |-> a.pull_request_id,
                       git_pull_request_to_update |-> update_data,
                       ret |-> written]
    IN  IF DOMAIN update_data = {}
        THEN [calls |-> <<>>, out |-> Raise(NoUpdateParameters), remote |-> r]
        ELSE [calls |-> <<write_call>>,
              out |-> IF written.raises THEN Raise(written.msg)
                      ELSE Return(written.pr[1]),
              remote |-> RemoteAfterUpdate(r, update_data, write)]

_update_pull_request_core_impl_writes_empty(a, r, read, write) ==
    LET update_data == SuppliedFields(a)
        written == RemoteUpdate(r, update_data, write)
        write_call == [api |-> "update_pull_request",
                       project |-> a.project_id_or_name,
                       repository_id |-> a.repository_id,
                       pull_request_id |-> a.pull_request_id,
                       git_pull_request_to_update |-> update_data,
                       ret |-> written]
    IN  [calls |-> <<write_call>>,
         out |-> IF written.raises THEN Raise(written.msg)
                 ELSE IF DOMAIN update_data = {} THEN Raise(NoUpdateParameters)
                 ELSE Return(written.pr[1]),
         remote |-> RemoteAfterUpdate(r, update_data, write)]

_update_pull_request_core_impl_cached_commit(a, r, read, write) ==
    LET completing == a.status = Some("completed")
        existing == RemoteGet(r, read)
        read_call == [api |-> "get_pull_request",
                      project |-> a.project_id_or_name,
                      repository_id |-> a.repository_id,
                      pull_request_id |-> a.pull_request_id,
                      ret |-> existing]
        update_data ==
            IF completing
            THEN SuppliedFields(a) @@ ("last_merge_source_commit" :> Some("c1"))
            ELSE SuppliedFields(a)
        written == RemoteUpdate(r, update_data, write)
        write_call == [api |-> "update_pull_request",
                       project |-> a.project_id_or_name,
                       repository_id |-> a.repository_id,
                       pull_request_id |-> a.pull_request_id,
                       git_pull_request_to_update |-> update_data,
                       ret |-> written]
    IN  IF completing /\ existing.raises
        THEN [calls |-> <<read_call>>, out |-> Raise(existing.msg), remote |-> r]
        ELSE IF completing /\ existing.pr = None
        THEN [calls |-> <<read_call>>, out |-> Raise(NoneHasNoAttribute), remote |-> r]
        ELSE IF DOMAIN update_data = {}
        THEN [calls |-> <<>>, out |-> Raise(NoUpdateParameters), remote |-> r]
        ELSE [calls |-> (IF completing THEN <<read_call>> ELSE <<>>) \o <<write_call>>,
              out |-> IF written.raises THEN Raise(written.msg)
                      ELSE Return(written.pr[1]),
              remote |-> RemoteAfterUpdate(r, update_data, write)]

_update_pull_request_core_impl_checks_status(a, r, read, write) ==
    LET existing == RemoteGet(r, read)
        read_call == [api |-> "get_pull_request",
                      project |-> a.project_id_or_name,
                      repository_id |-> a.repository_id,
                      pull_request_id |-> a.pull_request_id,
                      ret |-> existing]
        update_data ==
            IF a.status = Some("completed")
            THEN SuppliedFields(a)
                 @@ ("last_merge_source_commit"
                       :> existing.pr[1].last_merge_source_commit)
            ELSE SuppliedFields(a)
        written == RemoteUpdate(r, update_data, write)
        write_call == [api |-> "update_pull_request",
                       project |-> a.project_id_or_name,
                       repository_id |-> a.repository_id,
                       pull_request_id |-> a.pull_request_id,
                       git_pull_request_to_update |-> update_data,
                       ret |-> written]
    IN  IF a.status = None
        THEN _update_pull_request_core_impl_cached_commit(a, r, read, write)
        ELSE IF existing.raises
        THEN [calls |-> <<read_call>>, out |-> Raise(existing.msg), remote |-> r]
        ELSE IF existing.pr = None
        THEN [calls |-> <<read_call>>, out |-> Raise(NoneHasNoAttribute), remote |-> r]
        ELSE IF existing.pr[1].status = a.status[1]
        THEN [calls |-> <<read_call>>, out |-> Return(existing.pr[1]), remote |-> r]
        ELSE [calls |-> <<read_call, write_call>>,
              out |-> IF written.raises THEN Raise(written.msg)
                      ELSE Return(written.pr[1]),
              remote |-> RemoteAfterUpdate(r, update_data, write)]

\* tools.py _update_pull_request_core_impl on the pull request r, where read
\* and write are what the service does with its get_pull_request and its
\* update_pull_request.  Yields the calls issued, the outcome and the pull
\* request as the service holds it afterwards.
_update_pull_request_core_impl(a, r, read, write) ==
    LET completing == a.status = Some("completed")
        existing == RemoteGet(r, read)
        read_call == [api |-> "get_pull_request",
                      project |-> a.project_id_or_name,
                      repository_id |-> a.repository_id,
                      pull_request_id |-> a.pull_request_id,
                      ret |-> existing]
    IN  IF completing /\ existing.raises
        THEN [calls |-> <<read_call>>, out |-> Raise(existing.msg), remote |-> r]
        ELSE IF completing /\ existing.pr = None
        THEN [calls |-> <<read_call>>, out |-> Raise(NoneHasNoAttribute), remote |-> r]
        ELSE
          LET update_data ==
                  IF completing
                  THEN SuppliedFields(a)
                       @@ ("last_merge_source_commit"
                             :> existing.pr[1].last_merge_source_commit)
                  ELSE SuppliedFields(a)
              written == RemoteUpdate(r, update_data, write)
              write_call == [api |-> "update_pull_request",
                             project |-> a.project_id_or_name,
                             repository_id |-> a.repository_id,
                             pull_request_id |-> a.pull_request_id,
                             git_pull_request_to_update |-> update_data,
                             ret |-> written]
          IN  IF DOMAIN update_data = {}
              THEN [calls |-> <<>>, out |-> Raise(NoUpdateParameters), remote |-> r]
              ELSE [calls |-> (IF completing THEN <<read_call>> ELSE <<>>)
                              \o <<write_call>>,
                    out |-> IF written.raises THEN Raise(written.msg)
                            ELSE Return(written.pr[1]),
                    remote |-> RemoteAfterUpdate(r, update_data, write)]

\* the arguments of the core for a caller that passes only some of them
CoreArguments(a, title, description, status, completion_options) ==
    [project_id_or_name |-> a.project_id_or_name,
     repository_id |-> a.repository_id,
     pull_request_id |-> a.pull_request_id,
     title |-> title,
     description |-> description,
     status |-> status,
     completion_options |-> completion_options]

\* tools.py _update_pull_request_impl
_update_pull_request_impl(a, r, read, write) ==
    LET core == _update_pull_request_core_impl(
                    CoreArguments(a, a.title, a.description, None, None),
                    r, read, write)
    IN  [calls |-> core.calls,
         out |-> IF core.out.raised
                 THEN Return(<<"Error", " updating pull request: ">> \o core.out.val)
                 ELSE Return(_format_pull_request(core.out.val)),
         remote |-> core.remote]

GitPullRequestCompletionOptions(merge_strategy, delete_source_branch) ==
    [merge_strategy |-> merge_strategy, delete_source_branch |-> delete_source_branch]

_complete_pull_request_impl_default_options(a, r, read, write) ==
    LET core == _update_pull_request_core_impl(
                    CoreArguments(a, None, None, Some("completed"),
                        Some(GitPullRequestCompletionOptions("squash", FALSE))),
                    r, read, write)
    IN  [calls |-> core.calls,
         out |-> IF core.out.raised
                 THEN Return(<<"Error", " completing pull request: ">> \o core.out.val)
                 ELSE Return(<<"Pull request ", IntStr(a.pull_request_id),
                               " completed successfully by ">>),
         remote |-> core.remote]

_complete_pull_request_impl_checks_status(a, r, read, write) ==
    LET core == _update_pull_request_core_impl(
                    CoreArguments(a, None, None, Some("completed"),
                        Some(GitPullRequestCompletionOptions(
                                 a.merge_strategy, a.delete_source_branch))),
                    r, read, write)
        completed_by == IF core.out.val.closed_by # None
                        THEN core.out.val.closed_by[1].display_name
                        ELSE <<"Unknown">>
    IN  [calls |-> core.calls,
         out |-> IF core.out.raised
                 THEN Return(<<"Error", " completing pull request: ">> \o core.out.val)
                 ELSE IF core.out.val.status # "completed"
                 THEN Return(<<"Error", " completing pull request: ",
                               "pull request is still ", core.out.val.status>>)
                 ELSE Return(<<"Pull request ", IntStr(a.pull_request_id),
                               " completed successfully by ">> \o completed_by
                             \o <<"\n", "Merge strategy: ", a.merge_strategy,
                                  "\n", "Source branch deleted: ",
                                  BoolStr(a.delete_source_branch)>>),
         remote |-> core.remote]

\* tools.py _complete_pull_request_impl
_complete_pull_request_impl(a, r, read, write) ==
    LET core == _update_pull_request_core_impl(
                    CoreArguments(a, None, None, Some("completed"),
                        Some(GitPullRequestCompletionOptions(
                                 a.merge_strategy, a.delete_source_branch))),
                    r, read, write)
        completed_by == IF core.out.val.closed_by # None
                        THEN core.out.val.closed_by[1].display_name
                        ELSE <<"Unknown">>
    IN  [calls |-> core.calls,
         out |-> IF core.out.raised
                 THEN Return(<<"Error", " completing pull request: ">> \o core.out.val)
                 ELSE Return(<<"Pull request ", IntStr(a.pull_request_id),
                               " completed successfully by ">> \o completed_by
                             \o <<"\n", "Merge strategy: ", a.merge_strategy,
                                  "\n", "Source branch deleted: ",
                                  BoolStr(a.delete_source_branch)>>),
         remote |-> core.remote]

_abandon_pull_request_impl_with_message(a, r, read, write) ==
    LET core == _update_pull_request_core_impl(
                    CoreArguments(a, None, None, Some("abandoned"), None),
                    r, read, write)
    IN  [calls |-> core.calls,
         out |-> IF core.out.raised
                 THEN Return(<<"Failed to abandon pull request #",
                               IntStr(a.pull_request_id), ": ">>
                             \o core.out.val \o <<".">>)
                 ELSE Return(<<"Successfully abandoned pull request #",
                               IntStr(a.pull_request_id), ".">>),
         remote |-> core.remote]

\* tools.py _abandon_pull_request_impl
_abandon_pull_request_impl(a, r, read, write) ==
    LET core == _update_pull_request_core_impl(
                    CoreArguments(a, None, None, Some("abandoned"), None),
                    r, read, write)
    IN  [calls |-> core.calls,
         out |-> IF core.out.raised
                 THEN Return(<<"Failed to abandon pull request #",
                               IntStr(a.pull_request_id), ".">>)
                 ELSE Return(<<"Successfully abandoned pull request #",
                               IntStr(a.pull_request_id), ".">>),
         remote |-> core.remote]

\* tools.py _reactivate_pull_request_impl
_reactivate_pull_request_impl(a, r, read, write) ==
    LET core == _update_pull_request_core_impl(
                    CoreArguments(a, None, None, Some("active"), None),
                    r, read, write)
    IN  [calls |-> core.calls,
         out |-> IF core.out.raised
                 THEN Return(<<"Failed to reactivate pull request #",
                               IntStr(a.pull_request_id), ": ">>
                             \o core.out.val \o <<".">>)
                 ELSE Return(<<"Successfully reactivated pull request #",
                               IntStr(a.pull_request_id), ".">>),
         remote |-> core.remote]

GitTool_no_except(git, r, impl_result) ==
    IF get_git_client(git).raised
    THEN [calls |-> <<>>, out |-> get_git_client(git), remote |-> r]
    ELSE impl_result

\* the tools update_pull_request, complete_pull_request, abandon_pull_request
\* and reactivate_pull_request: the git client, then the implementation
GitTool(git, r, impl_result) ==
    IF get_git_client(git).raised
    THEN [calls |-> <<>>,
          out |-> Return(ClientErrorText(get_git_client(git).val)),
          remote |-> r]
    ELSE impl_result

update_pull_request(a, git, r, read, write) ==
    GitTool(git, r, _update_pull_request_impl(a, r, read, write))

complete_pull_request(a, git, r, read, write) ==
    GitTool(git, r, _complete_pull_request_impl(a, r, read, write))

abandon_pull_request(a, git, r, read, write) ==
    GitTool(git, r, _abandon_pull_request_impl(a, r, read, write))

reactivate_pull_request(a, git, r, read, write) ==
    GitTool(git, r, _reactivate_pull_request_impl(a, r, read, write))

-----------------------------------------------------------------------------
(* Votes: tools.py _set_vote_core_impl, _approve_pull_request_impl and      *)
(* _reject_pull_request_impl                                               *)

\* identity_client.get_self(): it raises, or returns the identity of the
\* credential the connection authenticates with
SelfResponses == {[raises |-> TRUE, msg |-> m] : m \in RemoteErrors}
                 \cup {[raises |-> FALSE, msg |-> <<>>]}

\* git_client.create_pull_request_reviewer: it raises, or returns the
\* reviewer with the vote recorded
VoteResponses == {[raises |-> TRUE, msg |-> m] : m \in RemoteErrors}
                 \cup {[raises |-> FALSE, msg |-> <<>>]}

_set_vote_core_impl_fixed_reviewer(a, vote, credential, self, voted) ==
    LET self_call == [api |-> "get_self",
                      ret |-> [raises |-> self.raises, msg |-> self.msg,
                               id |-> IF self.raises THEN None ELSE credential]]
        reviewer == [id |-> Guid("1"), vote |-> vote]
        vote_call == [api |-> "create_pull_request_reviewer",
                      reviewer |-> reviewer,
                      repository_id |-> a.repository_id,
                      pull_request_id |-> a.pull_request_id,
                      reviewer_id |-> Guid("1"),
                      project |-> a.project_id_or_name,
                      ret |-> voted]
    IN  IF self.raises
        THEN [calls |-> <<self_call>>,
              out |-> Raise(<<"Failed to set vote: ">> \o self.msg)]
        ELSE [calls |-> <<self_call, vote_call>>,
              out |-> IF voted.raises
                      THEN Raise(<<"Failed to set vote: ">> \o voted.msg)
                      ELSE Return([id |-> Guid("1"), vote |-> vote,
                                   display_name |-> <<"user ">> \o Guid("1")])]

_set_vote_core_impl_retries_self(a, vote, credential, self, voted) ==
    LET failed_call == [api |-> "get_self",
                        ret |-> [raises |-> TRUE, msg |-> self.msg, id |-> None]]
        self_call == [api |-> "get_self",
                      ret |-> [raises |-> FALSE, msg |-> <<>>, id |-> credential]]
        reviewer == [id |-> credential, vote |-> vote]
        vote_call == [api |-> "create_pull_request_reviewer",
                      reviewer |-> reviewer,
                      repository_id |-> a.repository_id,
                      pull_request_id |-> a.pull_request_id,
                      reviewer_id |-> credential,
                      project |-> a.project_id_or_name,
                      ret |-> voted]
    IN  [calls |-> (IF self.raises THEN <<failed_call>> ELSE <<>>)
                   \o <<self_call, vote_call>>,
         out |-> IF voted.raises
                 THEN Raise(<<"Failed to set vote: ">> \o voted.msg)
                 ELSE Return([id |-> credential, vote |-> vote,
                              display_name |-> <<"user ">> \o credential])]

\* credential is the id of the identity the access token belongs to; self
\* and voted are what get_self and create_pull_request_reviewer do
_set_vote_core_impl(a, vote, credential, self, voted) ==
    LET self_call == [api |-> "get_self",
                      ret |-> [raises |-> self.raises, msg |-> self.msg,
                               id |-> IF self.raises THEN None ELSE credential]]
        reviewer_id == credential
        reviewer == [id |-> reviewer_id, vote |-> vote]
        vote_call == [api |-> "create_pull_request_reviewer",
                      reviewer |-> reviewer,
                      repository_id |-> a.repository_id,
                      pull_request_id |-> a.pull_request_id,
                      reviewer_id |-> reviewer_id,
                      project |-> a.project_id_or_name,
                      ret |-> voted]
    IN  IF self.raises
        THEN [calls |-> <<self_call>>,
              out |-> Raise(<<"Failed to set vote: ">> \o self.msg)]
        ELSE [calls |-> <<self_call, vote_call>>,
              out |-> IF voted.raises
                      THEN Raise(<<"Failed to set vote: ">> \o voted.msg)
                      ELSE Return([id |-> reviewer_id, vote |-> vote,
                                   display_name |-> <<"user ">> \o reviewer_id])]

\* tools.py _approve_pull_request_impl
_approve_pull_request_impl(a, credential, self, voted) ==
    LET core == _set_vote_core_impl(a, 10, credential, self, voted)
    IN  [calls |-> core.calls,
         out |-> IF core.out.raised
                 THEN Return(<<"Error", " approving pull request: ">> \o core.out.val)
                 ELSE Return(<<"Pull request ", IntStr(a.pull_request_id),
                               " approved by ">> \o core.out.val.display_name)]

_reject_pull_request_impl_approves(a, credential, self, voted) ==
    LET core == _set_vote_core_impl(a, 10, credential, self, voted)
    IN  [calls |-> core.calls,
         out |-> IF core.out.raised
                 THEN Return(<<"Error", " rejecting pull request: ">> \o core.out.val)
                 ELSE Return(<<"Pull request ", IntStr(a.pull_request_id),
                               " rejected by ">> \o core.out.val.display_name)]

\* tools.py _reject_pull_request_impl
_reject_pull_request_impl(a, credential, self, voted) ==
    LET core == _set_vote_core_impl(a, -10, credential, self, voted)
    IN  [calls |-> core.calls,
         out |-> IF core.out.raised
                 THEN Return(<<"Error", " rejecting pull request: ">> \o core.out.val)
                 ELSE Return(<<"Pull request ", IntStr(a.pull_request_id),
                               " rejected by ">> \o core.out.val.display_name)]

\* the tools approve_pull_request and reject_pull_request: the git client,
\* the identity client, then the implementation
VoteTool(git, identity, impl_result) ==
    IF get_git_client(git).raised
    THEN [calls |-> <<>>, out |-> Return(ClientErrorText(get_git_client(git).val))]
    ELSE IF get_identity_client(identity).raised
    THEN [calls |-> <<>>,
          out |-> Return(ClientErrorText(get_identity_client(identity).val))]
    ELSE impl_result

approve_pull_request(a, git, identity, credential, self, voted) ==
    VoteTool(git, identity, _approve_pull_request_impl(a, credential, self, voted))

reject_pull_request(a, git, identity, credential, self, voted) ==
    VoteTool(git, identity, _reject_pull_request_impl(a, credential, self, voted))

-----------------------------------------------------------------------------
(* Threads and comments: tools.py _add_comment_impl, _update_thread_impl  *)
(* and the tools add_comment, resolve_thread and reactivate_thread        *)

\* the thread the service holds on the pull request, and one of its comments
ThreadId == 7
CommentId == 3

\* the ids the service gives to the next thread and to the next comment
NewThreadId == 8
NewCommentId == 4

ThreadStatuses == {"active", "fixed", "closed"}

\* Python truth of an Optional[int]: None and 0 are false
Truthy(optional_int) == optional_int # None /\ optional_int[1] # 0

\* client.create_comment and client.create_thread: the call raises, or the
\* service returns what it created, with its id
AddResponses == {[raises |-> TRUE, msg |-> m] : m \in RemoteErrors}
                \cup {[raises |-> FALSE, msg |-> <<>>]}

\* client.update_thread: the call raises and changes nothing, or the service
\* sets the status and returns the thread
ThreadResponses == {[raises |-> TRUE, msg |-> m] : m \in RemoteErrors}
                   \cup {[raises |-> FALSE, msg |-> <<>>]}

\* azure.devops Comment(content=...), parent_comment_id unset unless assigned
Comment(content, parent_comment_id) ==
    [content |-> content, parent_comment_id |-> parent_comment_id]

_add_comment_impl_comments_only(a, added) ==
    LET thread == [comments |-> <<>>, status |-> "active"]
        thread_call == [api |-> "create_thread",
                        comment_thread |-> thread,
                        repository_id |-> a.repository_id,
                        pull_request_id |-> a.pull_request_id,
                        project |-> a.project_id_or_name,
                        ret |-> [raises |-> added.raises, msg |-> added.msg,
                                 id |-> IF added.raises THEN None
                                        ELSE Some(NewThreadId)]]
        comment_call == [api |-> "create_comment",
                         comment |-> Comment(a.content, None),
                         repository_id |-> a.repository_id,
                         pull_request_id |-> a.pull_request_id,
                         thread_id |-> NewThreadId,
                         project |-> a.project_id_or_name,
                         ret |-> [raises |-> FALSE, msg |-> <<>>,
                                  id |-> Some(NewCommentId)]]
    IN  IF added.raises
        THEN [calls |-> <<thread_call>>,
              out |-> Return(<<"Error", " adding comment: ">> \o added.msg)]
        ELSE [calls |-> <<thread_call, comment_call>>,
              out |-> Return(<<"Comment added successfully to thread ID: ",
                               IntStr(NewThreadId)>>)]

\* tools.py _add_comment_impl, where added is what the service does with the
\* one call the function issues
_add_comment_impl(a, added) ==
    IF Truthy(a.comment_thread_id)
    THEN LET comment == Comment(a.content,
                                IF Truthy(a.parent_comment_id)
                                THEN a.parent_comment_id ELSE None)
             comment_call == [api |-> "create_comment",
                              comment |-> comment,
                              repository_id |-> a.repository_id,
                              pull_request_id |-> a.pull_request_id,
                              thread_id |-> a.comment_thread_id[1],
                              project |-> a.project_id_or_name,
                              ret |-> [raises |-> added.raises, msg |-> added.msg,
                                       id |-> IF added.raises THEN None
                                              ELSE Some(NewCommentId)]]
         IN  [calls |-> <<comment_call>>,
              out |-> IF added.raises
                      THEN Return(<<"Error", " adding comment: ">> \o added.msg)
                      ELSE Return(<<"Comment ID ", IntStr(NewCommentId),
                                    " added successfully to the thread">>)]
    ELSE LET thread == [comments |-> <<Comment(a.content, None)>>,
                        status |-> "active"]
             thread_call == [api |-> "create_thread",
                             comment_thread |-> thread,
                             repository_id |-> a.repository_id,
                             pull_request_id |-> a.pull_request_id,
                             project |-> a.project_id_or_name,
                             ret |-> [raises |-> added.raises, msg |-> added.msg,
                                      id |-> IF added.raises THEN None
                                             ELSE Some(NewThreadId)]]
         IN  [calls |-> <<thread_call>>,
              out |-> IF added.raises
                      THEN Return(<<"Error", " adding comment: ">> \o added.msg)
                      ELSE Return(<<"Comment added successfully to thread ID: ",
                                    IntStr(NewThreadId)>>)]

\* the add_comment tool: the git client, then the implementation
add_comment(a, git, added) ==
    IF get_git_client(git).raised
    THEN [calls |-> <<>>, out |-> Return(ClientErrorText(get_git_client(git).val))]
    ELSE _add_comment_impl(a, added)

\* the thread as client.update_thread returns it
UpdatedThread(r, thread_id, state, updated) ==
    [raises |-> updated.raises,
     msg |-> updated.msg,
     thread |-> IF updated.raises THEN None
                ELSE Some([id |-> thread_id, status |-> state])]

\* the service's state after client.update_thread
RemoteAfterThreadUpdate(r, thread_id, state, updated) ==
    IF updated.raises \/ thread_id # ThreadId THEN r
    ELSE [r EXCEPT !.thread_status = state]

_update_thread_impl_read_first(a, state, r, updated) ==
    LET read_call == [api |-> "get_pull_request_thread",
                      project |-> a.project_id_or_name,
                      repository_id |-> a.repository_id,
                      pull_request_id |-> a.pull_request_id,
                      thread_id |-> a.comment_thread_id,
                      ret |-> [raises |-> FALSE, msg |-> <<>>,
                               thread |-> Some([id |-> a.comment_thread_id,
                                                status |-> r.thread_status])]]
        returned == UpdatedThread(r, a.comment_thread_id, state, updated)
        write_call == [api |-> "update_thread",
                       comment_thread |-> [status |-> state],
                       project |-> a.project_id_or_name,
                       repository_id |-> a.repository_id,
                       pull_request_id |-> a.pull_request_id,
                       thread_id |-> a.comment_thread_id,
                       ret |-> returned]
    IN  IF r.thread_status = "closed"
        THEN [calls |-> <<read_call>>,
              out |-> Return(<<"Thread ID ", IntStr(a.comment_thread_id),
                               " successfully changed state to ", r.thread_status>>),
              remote |-> r]
        ELSE [calls |-> <<read_call, write_call>>,
              out |-> IF updated.raises
                      THEN Return(<<"Error", " updating state of the thread ID ",
                                    IntStr(a.comment_thread_id), ": ">> \o updated.msg)
                      ELSE Return(<<"Thread ID ", IntStr(returned.thread[1].id),
                                    " successfully changed state to ",
                                    returned.thread[1].status>>),
              remote |-> RemoteAfterThreadUpdate(r, a.comment_thread_id, state, updated)]

\* tools.py _update_thread_impl on the service state r, where updated is what
\* the service does with the update_thread call
_update_thread_impl(a, state, r, updated) ==
    LET returned == UpdatedThread(r, a.comment_thread_id, state, updated)
        write_call == [api |-> "update_thread",
                       comment_thread |-> [status |-> state],
                       project |-> a.project_id_or_name,
                       repository_id |-> a.repository_id,
                       pull_request_id |-> a.pull_request_id,
                       thread_id |-> a.comment_thread_id,
                       ret |-> returned]
    IN  [calls |-> <<write_call>>,
         out |-> IF updated.raises
                 THEN Return(<<"Error", " updating state of the thread ID ",
                               IntStr(a.comment_thread_id), ": ">> \o updated.msg)
                 ELSE Return(<<"Thread ID ", IntStr(returned.thread[1].id),
                               " successfully changed state to ",
                               returned.thread[1].status>>),
         remote |-> RemoteAfterThreadUpdate(r, a.comment_thread_id, state, updated)]

\* the resolve_thread tool: state "fixed"
resolve_thread(a, git, r, updated) ==
    GitTool(git, r, _update_thread_impl(a, "fixed", r, updated))

\* the reactivate_thread tool: state "active"
reactivate_thread(a, git, r, updated) ==
    GitTool(git, r, _update_thread_impl(a, "active", r, updated))

-----------------------------------------------------------------------------
(* Reads: tools.py _get_pull_requests_impl, _get_pull_request_impl,       *)
(* _get_pr_threads_impl, _get_pr_work_items_impl and their tools          *)

\* the most pull requests one listing returns
MaxListed == 2

\* "\n\n".join(blocks)
RECURSIVE JoinBlocks(_)
JoinBlocks(blocks) ==
    IF blocks = <<>> THEN <<>>
    ELSE IF Len(blocks) = 1 THEN blocks[1]
    ELSE blocks[1] \o <<"\n\n">> \o JoinBlocks(Tail(blocks))

GitPullRequestSearchCriteria(status, creator, reviewer, target_branch) ==
    [status |-> status, creator_id |-> creator, reviewer_id |-> reviewer,
     target_ref_name |-> target_branch]

\* git_client.get_pull_requests: it raises, or returns the pull requests that
\* match, none or some
ListResponses ==
    {[raises |-> TRUE, msg |-> m, count |-> 0] : m \in RemoteErrors}
    \cup {[raises |-> FALSE, msg |-> <<>>, count |-> n] : n \in 0..MaxListed}

\* the pull requests a listing returns: the one the service holds and the
\* ones that follow it
RemoteList(r, listed) ==
    [raises |-> listed.raises,
     msg |-> listed.msg,
     prs |-> [i \in 1..listed.count |->
                [RemotePullRequest(r, None)
                    EXCEPT !.pull_request_id = PullRequestId + i - 1]]]

\* tools.py _get_pull_requests_impl
_get_pull_requests_impl(a, search_criteria, r, listed) ==
    LET pull_requests == RemoteList(r, listed)
        list_call == [api |-> "get_pull_requests",
                      repository_id |-> a.repository_id,
                      project |-> a.project_id_or_name,
                      search_criteria |-> search_criteria,
                      skip |-> None,
                      top |-> None,
                      ret |-> pull_requests]
    IN  [calls |-> <<list_call>>,
         out |-> IF pull_requests.raises
                 THEN Return(<<"Error", " retrieving pull requests: ">>
                             \o pull_requests.msg)
                 ELSE IF pull_requests.prs = <<>>
                 THEN Return(<<"No pull requests found.">>)
                 ELSE Return(JoinBlocks([i \in 1..Len(pull_requests.prs) |->
                                 _format_pull_request(pull_requests.prs[i])]))]

_get_pull_request_impl_empty_is_error(a, r, read) ==
    LET pull_request == RemoteGet(r, read)
        read_call == [api |-> "get_pull_request",
                      repository_id |-> a.repository_id,
                      pull_request_id |-> a.pull_request_id,
                      project |-> a.project_id_or_name,
                      include_work_item_refs |-> TRUE,
                      ret |-> pull_request]
    IN  [calls |-> <<read_call>>,
         out |-> IF pull_request.raises \/ pull_request.pr = None
                 THEN Return(<<"Error", " retrieving pull request ID ",
                               IntStr(a.pull_request_id), ": ">> \o pull_request.msg)
                 ELSE Return(_format_pull_request(pull_request.pr[1]))]

\* tools.py _get_pull_request_impl
_get_pull_request_impl(a, r, read) ==
    LET pull_request == RemoteGet(r, read)
        read_call == [api |-> "get_pull_request",
                      repository_id |-> a.repository_id,
                      pull_request_id |-> a.pull_request_id,
                      project |-> a.project_id_or_name,
                      include_work_item_refs |-> TRUE,
                      ret |-> pull_request]
    IN  [calls |-> <<read_call>>,
         out |-> IF pull_request.raises
                 THEN Return(<<"Error", " retrieving pull request ID ",
                               IntStr(a.pull_request_id), ": ">> \o pull_request.msg)
                 ELSE IF pull_request.pr = None
                 THEN Return(<<"Pull request not found.">>)
                 ELSE Return(_format_pull_request(pull_request.pr[1]))]

\* the tools get_pull_requests, get_pull_request, get_pr_threads,
\* get_pr_work_items: the git client, then the implementation
ReadTool(git, impl_result) ==
    IF get_git_client(git).raised
    THEN [calls |-> <<>>, out |-> Return(ClientErrorText(get_git_client(git).val))]
    ELSE impl_result

\* the get_pull_requests tool: the search criteria from the four filters
get_pull_requests(a, git, r, listed) ==
    ReadTool(git,
             _get_pull_requests_impl(
                 a,
                 GitPullRequestSearchCriteria(a.status, a.creator, a.reviewer,
                                              a.target_branch),
                 r, listed))

get_pull_request(a, git, r, read) ==
    ReadTool(git, _get_pull_request_impl(a, r, read))

\* the positions a thread's context can carry: none (a comment on the whole
\* file), one line, or a range of lines
ThreadContexts ==
    {None}
    \cup {Some([file_path |-> <<"/a.py">>, right_file_start |-> p[1],
                right_file_end |-> p[2]]) :
            p \in {<<None, None>>, <<Some(1), Some(1)>>, <<Some(1), Some(2)>>}}

NoneHasNoLine == <<"'NoneType' object has no attribute 'line'">>

\* the thread the service holds, as git_client.get_threads returns it
RemoteThread(r, context) ==
    [id |-> ThreadId,
     status |-> r.thread_status,
     is_deleted |-> FALSE,
     thread_context |-> context,
     comments |-> <<[author |-> [display_name |-> <<"Alice">>],
                     content |-> <<"Looks good">>]>>]

RECURSIVE CommentLines(_)
CommentLines(comments) ==
    IF comments = <<>> THEN <<>>
    ELSE <<"\n", "- [">> \o Head(comments).author.display_name \o <<"] ">>
         \o Head(comments).content \o CommentLines(Tail(comments))

\* tools.py _format_thread; it raises when the context carries no position
_format_thread(thread) ==
    IF thread.thread_context # None
       /\ thread.thread_context[1].right_file_start = None
    THEN Raise(NoneHasNoLine)
    ELSE Return(
        <<"# Thread ID: ", IntStr(thread.id)>>
        \o (IF thread.status # "" THEN <<"\n", "Status: ", thread.status>> ELSE <<>>)
        \o (IF thread.is_deleted THEN <<"\n", "Is Deleted: ", "True">> ELSE <<>>)
        \o (IF thread.thread_context # None
            THEN LET c == thread.thread_context[1]
                     first == c.right_file_start[1]
                     last == c.right_file_end[1]
                 IN  <<"\n", "Thread Context: ">> \o c.file_path
                     \o (IF first = last
                         THEN <<" (line: ", IntStr(first), ")">>
                         ELSE <<" (lines: ", IntStr(first), "-", IntStr(last), ")">>)
            ELSE <<>>)
        \o (IF thread.comments # <<>>
            THEN <<"\n", "Comments:">> \o CommentLines(thread.comments) ELSE <<>>))

\* git_client.get_threads: it raises, or returns the threads of the pull
\* request, none or the one the service holds
ThreadListResponses ==
    {[raises |-> TRUE, msg |-> m, found |-> FALSE, context |-> None] :
        m \in RemoteErrors}
    \cup {[raises |-> FALSE, msg |-> <<>>, found |-> FALSE, context |-> None]}
    \cup {[raises |-> FALSE, msg |-> <<>>, found |-> TRUE, context |-> c] :
            c \in ThreadContexts}

\* tools.py _get_pr_threads_impl
_get_pr_threads_impl(a, r, listed) ==
    LET threads == [raises |-> listed.raises,
                    msg |-> listed.msg,
                    threads |-> IF listed.found
                                THEN <<RemoteThread(r, listed.context)>> ELSE <<>>]
        list_call == [api |-> "get_threads",
                      project |-> a.project_id_or_name,
                      repository_id |-> a.repository_id,
                      pull_request_id |-> a.pull_request_id,
                      ret |-> threads]
        formatted == [i \in 1..Len(threads.threads) |->
                        _format_thread(threads.threads[i])]
    IN  [calls |-> <<list_call>>,
         out |-> IF threads.raises
                 THEN Return(<<"Error", " retrieving threads: ">> \o threads.msg)
                 ELSE IF threads.threads = <<>>
                 THEN Return(<<"No PR threads found.">>)
                 ELSE IF \E i \in 1..Len(formatted) : formatted[i].raised
                 THEN Return(<<"Error", " retrieving threads: ">>
                             \o formatted[CHOOSE i \in 1..Len(formatted) :
                                            /\ formatted[i].raised
                                            /\ \A j \in 1..(i - 1) :
                                                 ~formatted[j].raised].val)
                 ELSE Return(JoinBlocks([i \in 1..Len(formatted) |->
                                            formatted[i].val]))]

\* git_client.get_pull_request_work_item_refs: it raises, or returns the
\* references linked to the pull request, none or one
WorkItemResponses ==
    {[raises |-> TRUE, msg |-> m, refs |-> <<>>] : m \in RemoteErrors}
    \cup {[raises |-> FALSE, msg |-> <<>>, refs |-> l] :
            l \in {<<>>, <<[id |-> <<"101">>, url |-> <<"https://dev/wi/101">>]>>}}

\* tools.py _get_pr_work_items_impl
_get_pr_work_items_impl(a, listed) ==
    LET list_call == [api |-> "get_pull_request_work_item_refs",
                      project |-> a.project_id_or_name,
                      repository_id |-> a.repository_id,
                      pull_request_id |-> a.pull_request_id,
                      ret |-> listed]
    IN  [calls |-> <<list_call>>,
         out |-> IF listed.raises
                 THEN Return(<<"Error", " retrieving work items: ">> \o listed.msg)
                 ELSE IF listed.refs = <<>>
                 THEN Return(<<"No PR work items found.">>)
                 ELSE Return(<<"Linked Work Items for PR ID ",
                               IntStr(a.pull_request_id), ":">>
                             \o WorkItemLines(listed.refs))]

get_pr_threads(a, git, r, listed) ==
    ReadTool(git, _get_pr_threads_impl(a, r, listed))

get_pr_work_items(a, git, listed) ==
    ReadTool(git, _get_pr_work_items_impl(a, listed))

-----------------------------------------------------------------------------
(* The references the resolver is tried on *)

RefAlphabet == {"a", "@", ".", " "}

ShortRefs == SeqsUpTo(RefAlphabet, MaxRefLen)

\* GUIDs in either case and strings one character away from a GUID
GuidDigits == {"0", "a", "F"}
OddChars == {"g", "-", "F", "0", " ", "@", "\n"}

GuidVariants ==
    {Guid(c) : c \in GuidDigits}
    \cup {[Guid(c) EXCEPT ![i] = d] :
            c \in GuidDigits, i \in 1..GuidLen, d \in OddChars}
    \cup {Append(Guid(c), d) : c \in GuidDigits, d \in OddChars}
    \cup {<<d>> \o Guid(c) : c \in GuidDigits, d \in OddChars}
    \cup {SubSeq(Guid(c), 1, GuidLen - 1) : c \in GuidDigits}

\* mail-like references that hold a whitespace character other than " "
SpacedRefs ==
    {<<"a", w, "@", "a", ".", "a">> : w \in {"\\x0b", "\\xa0", "\\u2003"}}
    \cup {<<"a", "@", "a", ".", "a", w>> : w \in {"\\x85", "\\x1c"}}

RefStrings == ShortRefs \cup GuidVariants \cup SpacedRefs

-----------------------------------------------------------------------------
(* State *)

\* what the service may hold of a pull request besides what the tools write:
\* no merge status yet and no work item, a merge status, or a merge status
\* and one linked work item; it starts with the first and changes while no
\* tool runs (MergeStatusChanges)
MergeStates ==
    {[merge_status |-> "", work_item_refs |-> <<>>],
     [merge_status |-> "succeeded", work_item_refs |-> <<>>],
     [merge_status |-> "conflicts",
      work_item_refs |-> <<[id |-> <<"101">>, url |-> <<"https://dev/wi/101">>]>>]}

\* the pull request the update operations address and the status of its
\* thread, as the service holds them when the server starts
RemoteStates ==
    {[title |-> <<"T0">>,
      description |-> <<"D0">>,
      status |-> "active",
      merge_status |-> "",
      work_item_refs |-> <<>>,
      last_merge_source_commit |-> Some("c1"),
      thread_status |-> "active"]}

\* the callers that may run a tool side by side
Callers == {1, 2}

\* none of them has a call in progress
NoneInFlight == [p \in Callers |-> [pc |-> "idle"]]

Init ==
    /\ pc = "idle"
    /\ inflight = NoneInFlight
    /\ op = [name |-> "none"]
    /\ calls = <<>>
    /\ result = Return(<<>>)
    /\ remote \in RemoteStates
    /\ inflight = NoneInFlight

\* the synchronous call has returned to its caller; the next one may start
ReturnToCaller ==
    /\ pc = "done"
    /\ pc' = "idle"
    /\ UNCHANGED inflight
    /\ op' = [name |-> "none"]
    /\ calls' = <<>>
    /\ result' = Return(<<>>)
    /\ UNCHANGED remote

\* a call of _resolve_reviewer_guid(identity_client, reviewer)
ResolveReviewer ==
    /\ pc = "idle"
    /\ inflight = NoneInFlight
    /\ \E reviewer \in RefStrings, lookup \in LookupResponses :
         LET r == _resolve_reviewer_guid(reviewer, lookup)
         IN  /\ op' = [name |-> "resolve_reviewer_guid", reviewer |-> reviewer]
             /\ calls' = r.calls
             /\ result' = r.out
    /\ pc' = "done"
    /\ UNCHANGED inflight
    /\ UNCHANGED remote

\* the references given to create_pull_request: a GUID, a mail address, a name
CreateRefs == {Guid("1"), <<"a", "@", "b", ".", "c">>, <<"B", "o", "b">>}

OptionalReviewerLists ==
    {None} \cup {Some(l) : l \in SeqsUpTo(CreateRefs, MaxReviewers)}

CreateArguments ==
    {a \in [project_id_or_name : {"proj"},
            repository_id : {"repo"},
            title : {<<"Add feature">>},
            description : {<<"Adds it">>},
            source_branch : {<<"feature">>},
            target_branch : {<<"main">>},
            required_reviewers : OptionalReviewerLists,
            optional_reviewers : OptionalReviewerLists,
            is_draft : BOOLEAN] :
        Len(ListOrEmpty(a.required_reviewers))
            + Len(ListOrEmpty(a.optional_reviewers)) <= MaxReviewers}

\* the responses of the identity service during one create call
CreateLookupResponses ==
    {[raises |-> TRUE, msg |-> <<"HTTP 401 Unauthorized">>, ids |-> <<>>]}
    \cup {[raises |-> FALSE, msg |-> <<>>, ids |-> l] :
            l \in {<<>>, <<Guid("1")>>, <<Guid("2"), Guid("1")>>}}

NoLookup == [raises |-> FALSE, msg |-> <<>>, ids |-> <<>>]

\* the references of a create in the order the two loops walk them
ReferencesOf(a) ==
    ListOrEmpty(a.optional_reviewers) \o ListOrEmpty(a.required_reviewers)

\* how many of the first i references need a lookup
LookupsUpTo(refs, i) == Cardinality({k \in 1..i : ~_is_guid(refs[k])})

\* what read_identities answers for each reference of a create in progress:
\* the answers the log holds for the lookups made, and `lookup` for one that
\* is still to be made
AnsweredLookups(a, log, lookup) ==
    LET refs == ReferencesOf(a)
    IN  [i \in 1..Len(refs) |->
            IF ~_is_guid(refs[i]) /\ LookupsUpTo(refs, i) <= Len(log)
            THEN log[LookupsUpTo(refs, i)].ret
            ELSE lookup]

\* The handler of a tool that makes several remote calls runs one call at a
\* time: `calls` holds the calls made and answered so far, and pc is
\* "waiting" while the handler has a further call to make.  A run r of the
\* handler continues the log when its first calls are the ones of the log,
\* answered as the log says, and it makes at least one more.
Continues(r, log) ==
    /\ Len(r.calls) > Len(log)
    /\ SubSeq(r.calls, 1, Len(log)) = log

\* a call of the create_pull_request tool, up to the answer to its first
\* remote call (lookup if that is a lookup, created if it is
\* create_pull_request): the handler ends without a call (a client is
\* missing), ends with that call, or has a further call to make
CreatePullRequest ==
    /\ pc = "idle"
    /\ inflight = NoneInFlight
    /\ \E a \in CreateArguments, git \in ClientStates, identity \in ClientStates :
         \E created \in IF git = "ok" /\ identity = "ok" THEN CreateResponses
                        ELSE {[raises |-> FALSE, msg |-> <<>>]} :
           \E lookup \in IF git = "ok" /\ identity = "ok"
                         THEN CreateLookupResponses
                         ELSE {NoLookup} :
             LET r == create_pull_request(a, git, identity,
                                          AnsweredLookups(a, <<>>, lookup), created)
             IN  /\ op' = [name |-> "create_pull_request", args |-> a,
                           git |-> git, identity |-> identity]
                 /\ IF Len(r.calls) > 1
                    THEN /\ calls' = SubSeq(r.calls, 1, 1)
                         /\ result' = Return(<<>>)
                         /\ pc' = "waiting"
                    ELSE /\ calls' = r.calls
                         /\ result' = r.out
                         /\ pc' = "done"
    /\ UNCHANGED inflight
    /\ UNCHANGED remote

\* the next remote call of a create in progress (the lookup of the next
\* reference that is not a GUID, or create_pull_request after the last one)
\* is made and answered; the tool returns if that was its last call
CreatePullRequestContinues ==
    /\ pc = "waiting"
    /\ op.name = "create_pull_request"
    /\ \E created \in CreateResponses, lookup \in CreateLookupResponses :
           LET r == create_pull_request(op.args, op.git, op.identity,
                                        AnsweredLookups(op.args, calls, lookup),
                                        created)
               n == Len(calls)
           IN  /\ Continues(r, calls)
               /\ IF Len(r.calls) > n + 1
                  THEN /\ calls' = SubSeq(r.calls, 1, n + 1)
                       /\ result' = Return(<<>>)
                       /\ pc' = "waiting"
                  ELSE /\ calls' = r.calls
                       /\ result' = r.out
                       /\ pc' = "done"
    /\ UNCHANGED <<op, remote, inflight>>

NextCreate == CreatePullRequest \/ CreatePullRequestContinues \/ ReturnToCaller

SpecCreate == Init /\ [][NextCreate]_vars

OptionalTitles == {None, Some(<<>>), Some(<<"T1">>)}
OptionalDescriptions == {None, Some(<<>>), Some(<<"D1">>)}

\* the four strategies the tool documents and one it does not
MergeStrategyArguments == {"squash", "rebase", "rebaseMerge", "merge", "octopus"}

Commits == {None, Some("c1"), Some("c2")}

Target == [project_id_or_name : {"proj"}, repository_id : {"repo"},
           pull_request_id : {PullRequestId}]

WithTarget(t, fields) == t @@ fields

UpdateArguments ==
    {WithTarget(t, f) :
        t \in Target,
        f \in [title : OptionalTitles, description : OptionalDescriptions]}

CompleteArguments ==
    {WithTarget(t, f) :
        t \in Target,
        f \in [merge_strategy : MergeStrategyArguments,
               delete_source_branch : BOOLEAN]}

\* every choice of given and left out among the four optional arguments of
\* the core, with each of the three statuses
CoreCallArguments ==
    {WithTarget(t, f) :
        t \in Target,
        f \in [title : {None, Some(<<"T1">>)},
               description : {None, Some(<<>>)},
               status : {None, Some("active"), Some("abandoned"), Some("completed")},
               completion_options :
                   {None, Some(GitPullRequestCompletionOptions("squash", TRUE))}]}

\* a call of the update_pull_request tool
UpdatePullRequest ==
    /\ pc = "idle"
    /\ inflight = NoneInFlight
    /\ \E a \in UpdateArguments, git \in ClientStates,
          read \in ReadResponses, write \in WriteResponses :
         LET r == update_pull_request(a, git, remote, read, write)
         IN  /\ op' = [name |-> "update_pull_request", args |-> a, git |-> git]
             /\ calls' = r.calls
             /\ result' = r.out
             /\ remote' = r.remote
    /\ pc' = "done"
    /\ UNCHANGED inflight

\* a call of the complete_pull_request tool, up to the call of
\* client.update_pull_request: the handler ends before it, or has made its
\* read and waits for the service to take the write
CompletePullRequest ==
    /\ pc = "idle"
    /\ inflight = NoneInFlight
    /\ \E a \in CompleteArguments, git \in ClientStates,
          read \in ReadResponses, write \in WriteResponses :
         LET r == complete_pull_request(a, git, remote, read, write)
             k == FirstWrite(r.calls)
         IN  /\ op' = [name |-> "complete_pull_request", args |-> a, git |-> git]
             /\ IF k > 1
                THEN /\ calls' = SubSeq(r.calls, 1, k - 1)
                     /\ result' = Return(<<>>)
                     /\ remote' = remote
                     /\ pc' = "waiting"
                ELSE /\ calls' = r.calls
                     /\ result' = r.out
                     /\ remote' = r.remote
                     /\ pc' = "done"
    /\ UNCHANGED inflight

\* client.update_pull_request of the completion arrives at the service, as
\* the service is by then, and the tool returns
CompletePullRequestWrites ==
    /\ pc = "waiting"
    /\ op.name = "complete_pull_request"
    /\ \E write \in WriteResponses :
         LET r == complete_pull_request(op.args, op.git, remote,
                                        Answered(calls), write)
         IN  /\ calls' = r.calls
             /\ result' = r.out
             /\ remote' = r.remote
    /\ pc' = "done"
    /\ UNCHANGED <<op, inflight>>

\* a call of the abandon_pull_request tool
AbandonPullRequest ==
    /\ pc = "idle"
    /\ inflight = NoneInFlight
    /\ \E a \in Target, git \in ClientStates,
          read \in ReadResponses, write \in WriteResponses :
         LET r == abandon_pull_request(a, git, remote, read, write)
         IN  /\ op' = [name |-> "abandon_pull_request", args |-> a, git |-> git]
             /\ calls' = r.calls
             /\ result' = r.out
             /\ remote' = r.remote
    /\ pc' = "done"
    /\ UNCHANGED inflight

\* a call of the reactivate_pull_request tool
ReactivatePullRequest ==
    /\ pc = "idle"
    /\ inflight = NoneInFlight
    /\ \E a \in Target, git \in ClientStates,
          read \in ReadResponses, write \in WriteResponses :
         LET r == reactivate_pull_request(a, git, remote, read, write)
         IN  /\ op' = [name |-> "reactivate_pull_request", args |-> a, git |-> git]
             /\ calls' = r.calls
             /\ result' = r.out
             /\ remote' = r.remote
    /\ pc' = "done"
    /\ UNCHANGED inflight

\* a call of _update_pull_request_core_impl itself, with any of its
\* optional arguments given or left out
UpdatePullRequestCore ==
    /\ pc = "idle"
    /\ inflight = NoneInFlight
    /\ \E a \in CoreCallArguments, read \in ReadResponses, write \in WriteResponses :
         LET r == _update_pull_request_core_impl(a, remote, read, write)
             k == FirstWrite(r.calls)
         IN  /\ op' = [name |-> "update_pull_request_core", args |-> a, git |-> "ok"]
             /\ IF k > 1
                THEN /\ calls' = SubSeq(r.calls, 1, k - 1)
                     /\ result' = Return(<<>>)
                     /\ remote' = remote
                     /\ pc' = "waiting"
                ELSE /\ calls' = r.calls
                     /\ result' = r.out
                     /\ remote' = r.remote
                     /\ pc' = "done"
    /\ UNCHANGED inflight

\* client.update_pull_request of that call arrives at the service, as the
\* service is by then, and the call returns
UpdatePullRequestCoreWrites ==
    /\ pc = "waiting"
    /\ op.name = "update_pull_request_core"
    /\ \E write \in WriteResponses :
         LET r == _update_pull_request_core_impl(op.args, remote,
                                                 Answered(calls), write)
         IN  /\ calls' = r.calls
             /\ result' = r.out
             /\ remote' = r.remote
    /\ pc' = "done"
    /\ UNCHANGED <<op, inflight>>

\* what another client of the service stores in the pull request: a new
\* title, or it abandons it
OtherClientWrites == {[title |-> <<"T1">>], [status |-> "abandoned"]}

AnotherClientUpdates ==
    /\ pc \in {"idle", "waiting"}
    /\ \E payload \in OtherClientWrites :
         /\ \E f \in DOMAIN payload : remote[f] # payload[f]
         /\ remote' = [f \in DOMAIN remote |->
                         IF f \in DOMAIN payload THEN payload[f] ELSE remote[f]]
    /\ UNCHANGED <<pc, op, calls, result, inflight>>

\* somebody pushes to the source branch (or the service recomputes the
\* merge): the pull request's last merge source commit changes
SourceCommitChanges ==
    /\ pc \in {"idle", "waiting"}
    /\ \E c \in Commits \ {remote.last_merge_source_commit} :
         remote' = [remote EXCEPT !.last_merge_source_commit = c]
    /\ UNCHANGED <<pc, op, calls, result, inflight>>

\* the service reports another merge status, somebody links or unlinks a
\* work item
MergeStatusChanges ==
    /\ pc \in {"idle", "waiting"}
    /\ \E m \in MergeStates :
         /\ <<m.merge_status, m.work_item_refs>>
               # <<remote.merge_status, remote.work_item_refs>>
         /\ remote' = [remote EXCEPT !.merge_status = m.merge_status,
                                     !.work_item_refs = m.work_item_refs]
    /\ UNCHANGED <<pc, op, calls, result, inflight>>

NextUpdate ==
    \/ UpdatePullRequest
    \/ CompletePullRequest
    \/ CompletePullRequestWrites
    \/ AbandonPullRequest
    \/ ReactivatePullRequest
    \/ UpdatePullRequestCore
    \/ UpdatePullRequestCoreWrites
    \/ SourceCommitChanges
    \/ MergeStatusChanges
    \/ AnotherClientUpdates
    \/ ReturnToCaller

SpecUpdate == Init /\ [][NextUpdate]_vars

\* what the invoker of a vote tool can choose
VoteArguments == [project_id_or_name : {"proj", "other"},
                  repository_id : {"repo", "fork"},
                  pull_request_id : {PullRequestId, NewPullRequestId}]

\* a call of the approve_pull_request tool, up to the answer of get_self: the
\* handler ends without a call (a client is missing), ends with get_self, or
\* has its vote to write
ApprovePullRequest ==
    /\ pc = "idle"
    /\ inflight = NoneInFlight
    /\ \E a \in VoteArguments, git \in ClientStates, identity \in ClientStates,
          credential \in IdentityIds, self \in SelfResponses, voted \in VoteResponses :
         LET r == approve_pull_request(a, git, identity, credential, self, voted)
         IN  /\ op' = [name |-> "approve_pull_request", args |-> a, git |-> git,
                       identity |-> identity, credential |-> credential]
             /\ IF Len(r.calls) > 1
                THEN /\ calls' = SubSeq(r.calls, 1, 1)
                     /\ result' = Return(<<>>)
                     /\ pc' = "waiting"
                ELSE /\ calls' = r.calls
                     /\ result' = r.out
                     /\ pc' = "done"
    /\ UNCHANGED inflight
    /\ UNCHANGED remote

\* the next remote call of an approval in progress, create_pull_request_reviewer,
\* is made and answered; the tool returns if that was its last call
ApprovePullRequestVotes ==
    /\ pc = "waiting"
    /\ op.name = "approve_pull_request"
    /\ \E self \in SelfResponses, voted \in VoteResponses :
         LET r == approve_pull_request(op.args, op.git, op.identity, op.credential,
                         self, voted)
             n == Len(calls)
         IN  /\ Continues(r, calls)
             /\ IF Len(r.calls) > n + 1
                THEN /\ calls' = SubSeq(r.calls, 1, n + 1)
                     /\ result' = Return(<<>>)
                     /\ pc' = "waiting"
                ELSE /\ calls' = r.calls
                     /\ result' = r.out
                     /\ pc' = "done"
    /\ UNCHANGED <<op, remote, inflight>>

\* a call of the reject_pull_request tool, up to the answer of get_self: the
\* handler ends without a call (a client is missing), ends with get_self, or
\* has its vote to write
RejectPullRequest ==
    /\ pc = "idle"
    /\ inflight = NoneInFlight
    /\ \E a \in VoteArguments, git \in ClientStates, identity \in ClientStates,
          credential \in IdentityIds, self \in SelfResponses, voted \in VoteResponses :
         LET r == reject_pull_request(a, git, identity, credential, self, voted)
         IN  /\ op' = [name |-> "reject_pull_request", args |-> a, git |-> git,
                       identity |-> identity, credential |-> credential]
             /\ IF Len(r.calls) > 1
                THEN /\ calls' = SubSeq(r.calls, 1, 1)
                     /\ result' = Return(<<>>)
                     /\ pc' = "waiting"
                ELSE /\ calls' = r.calls
                     /\ result' = r.out
                     /\ pc' = "done"
    /\ UNCHANGED inflight
    /\ UNCHANGED remote

\* the next remote call of a rejection in progress, create_pull_request_reviewer,
\* is made and answered; the tool returns if that was its last call
RejectPullRequestVotes ==
    /\ pc = "waiting"
    /\ op.name = "reject_pull_request"
    /\ \E self \in SelfResponses, voted \in VoteResponses :
         LET r == reject_pull_request(op.args, op.git, op.identity, op.credential,
                         self, voted)
             n == Len(calls)
         IN  /\ Continues(r, calls)
             /\ IF Len(r.calls) > n + 1
                THEN /\ calls' = SubSeq(r.calls, 1, n + 1)
                     /\ result' = Return(<<>>)
                     /\ pc' = "waiting"
                ELSE /\ calls' = r.calls
                     /\ result' = r.out
                     /\ pc' = "done"
    /\ UNCHANGED <<op, remote, inflight>>

NextVote ==
    \/ ApprovePullRequest
    \/ ApprovePullRequestVotes
    \/ RejectPullRequest
    \/ RejectPullRequestVotes
    \/ ReturnToCaller

SpecVote == Init /\ [][NextVote]_vars

\* what the invoker of add_comment can choose: no thread id, the id 0, or
\* the id of the thread; no parent, the id 0, or the id of a comment
AddCommentArguments ==
    {WithTarget(t, f) :
        t \in Target,
        f \in [content : {<<"Looks good">>, <<>>},
               comment_thread_id : {None, Some(0), Some(ThreadId)},
               parent_comment_id : {None, Some(0), Some(CommentId)}]}

ThreadArguments ==
    {WithTarget(t, f) :
        t \in Target, f \in [comment_thread_id : {ThreadId, 11}]}

\* a call of the add_comment tool
AddComment ==
    /\ pc = "idle"
    /\ inflight = NoneInFlight
    /\ \E a \in AddCommentArguments, git \in ClientStates, added \in AddResponses :
         LET r == add_comment(a, git, added)
         IN  /\ op' = [name |-> "add_comment", args |-> a, git |-> git]
             /\ calls' = r.calls
             /\ result' = r.out
    /\ pc' = "done"
    /\ UNCHANGED inflight
    /\ UNCHANGED remote

\* a call of the resolve_thread tool
ResolveThread ==
    /\ pc = "idle"
    /\ inflight = NoneInFlight
    /\ \E a \in ThreadArguments, git \in ClientStates, updated \in ThreadResponses :
         LET r == resolve_thread(a, git, remote, updated)
         IN  /\ op' = [name |-> "resolve_thread", args |-> a, git |-> git]
             /\ calls' = r.calls
             /\ result' = r.out
             /\ remote' = r.remote
    /\ pc' = "done"
    /\ UNCHANGED inflight

\* a call of the reactivate_thread tool
ReactivateThread ==
    /\ pc = "idle"
    /\ inflight = NoneInFlight
    /\ \E a \in ThreadArguments, git \in ClientStates, updated \in ThreadResponses :
         LET r == reactivate_thread(a, git, remote, updated)
         IN  /\ op' = [name |-> "reactivate_thread", args |-> a, git |-> git]
             /\ calls' = r.calls
             /\ result' = r.out
             /\ remote' = r.remote
    /\ pc' = "done"
    /\ UNCHANGED inflight

\* somebody else sets the status of the thread between two calls
ThreadStatusChanges ==
    /\ pc \in {"idle", "waiting"}
    /\ \E s \in ThreadStatuses \ {remote.thread_status} :
         remote' = [remote EXCEPT !.thread_status = s]
    /\ UNCHANGED <<pc, op, calls, result, inflight>>

NextThread ==
    \/ AddComment
    \/ ResolveThread
    \/ ReactivateThread
    \/ ThreadStatusChanges
    \/ ReturnToCaller

SpecThread == Init /\ [][NextThread]_vars

\* what the invoker of get_pull_requests can choose
ListArguments ==
    [project_id_or_name : {"proj"},
     repository_id : {"repo"},
     status : {None, Some("active"), Some("completed")},
     creator : {None, Some(Guid("1"))},
     reviewer : {None, Some(Guid("2"))},
     target_branch : {None, Some(<<"refs/heads/main">>)}]

\* a call of the get_pull_requests tool
GetPullRequests ==
    /\ pc = "idle"
    /\ inflight = NoneInFlight
    /\ \E a \in ListArguments, git \in ClientStates, listed \in ListResponses :
         LET r == get_pull_requests(a, git, remote, listed)
         IN  /\ op' = [name |-> "get_pull_requests", args |-> a, git |-> git]
             /\ calls' = r.calls
             /\ result' = r.out
    /\ pc' = "done"
    /\ UNCHANGED inflight
    /\ UNCHANGED remote

\* a call of the get_pull_request tool
GetPullRequest ==
    /\ pc = "idle"
    /\ inflight = NoneInFlight
    /\ \E a \in Target, git \in ClientStates, read \in ReadResponses :
         LET r == get_pull_request(a, git, remote, read)
         IN  /\ op' = [name |-> "get_pull_request", args |-> a, git |-> git]
             /\ calls' = r.calls
             /\ result' = r.out
    /\ pc' = "done"
    /\ UNCHANGED inflight
    /\ UNCHANGED remote

\* a call of the get_pr_threads tool
GetPrThreads ==
    /\ pc = "idle"
    /\ inflight = NoneInFlight
    /\ \E a \in Target, git \in ClientStates, listed \in ThreadListResponses :
         LET r == get_pr_threads(a, git, remote, listed)
         IN  /\ op' = [name |-> "get_pr_threads", args |-> a, git |-> git]
             /\ calls' = r.calls
             /\ result' = r.out
    /\ pc' = "done"
    /\ UNCHANGED inflight
    /\ UNCHANGED remote

\* a call of the get_pr_work_items tool
GetPrWorkItems ==
    /\ pc = "idle"
    /\ inflight = NoneInFlight
    /\ \E a \in Target, git \in ClientStates, listed \in WorkItemResponses :
         LET r == get_pr_work_items(a, git, listed)
         IN  /\ op' = [name |-> "get_pr_work_items", args |-> a, git |-> git]
             /\ calls' = r.calls
             /\ result' = r.out
    /\ pc' = "done"
    /\ UNCHANGED inflight
    /\ UNCHANGED remote

NextRead ==
    \/ GetPullRequests
    \/ GetPullRequest
    \/ GetPrThreads
    \/ GetPrWorkItems
    \/ MergeStatusChanges
    \/ ReturnToCaller

SpecRead == Init /\ [][NextRead]_vars

\* among all the tools, a create names at most this many reviewers
MaxToolReviewers == 2

\* the reference given to it there: a name, which takes a lookup
ToolRefs == {<<"B", "o", "b">>}

\* the create calls that name at most MaxToolReviewers reviewers: required
\* ones, after no optional reviewer or after one given by name
ShortListArguments ==
    {a \in [project_id_or_name : {"proj"},
            repository_id : {"repo"},
            title : {<<"Add feature">>},
            description : {<<"Adds it">>},
            source_branch : {<<"feature">>},
            target_branch : {<<"main">>},
            required_reviewers :
                {None} \cup {Some(l) : l \in SeqsUpTo(ToolRefs, MaxToolReviewers)},
            optional_reviewers : {None, Some(<<<<"B", "o", "b">>>>)},
            is_draft : {FALSE}] :
        Len(ListOrEmpty(a.required_reviewers))
            + Len(ListOrEmpty(a.optional_reviewers)) <= MaxToolReviewers}

\* a call of the create_pull_request tool with such arguments, up to the
\* answer to its first remote call
CreatePullRequestShortLists ==
    /\ pc = "idle"
    /\ inflight = NoneInFlight
    /\ \E a \in ShortListArguments, git \in ClientStates, identity \in ClientStates :
         \E created \in IF git = "ok" /\ identity = "ok" THEN CreateResponses
                        ELSE {[raises |-> FALSE, msg |-> <<>>]} :
           \E lookup \in IF git = "ok" /\ identity = "ok"
                         THEN CreateLookupResponses
                         ELSE {NoLookup} :
             LET r == create_pull_request(a, git, identity,
                                          AnsweredLookups(a, <<>>, lookup), created)
             IN  /\ op' = [name |-> "create_pull_request", args |-> a,
                           git |-> git, identity |-> identity]
                 /\ IF Len(r.calls) > 1
                    THEN /\ calls' = SubSeq(r.calls, 1, 1)
                         /\ result' = Return(<<>>)
                         /\ pc' = "waiting"
                    ELSE /\ calls' = r.calls
                         /\ result' = r.out
                         /\ pc' = "done"
    /\ UNCHANGED inflight
    /\ UNCHANGED remote

\* the fourteen tools register_tools registers
NextTools ==
    \/ GetPullRequests
    \/ GetPullRequest
    \/ GetPrThreads
    \/ GetPrWorkItems
    \/ CreatePullRequestShortLists
    \/ CreatePullRequestContinues
    \/ UpdatePullRequest
    \/ AddComment
    \/ ResolveThread
    \/ ReactivateThread
    \/ ApprovePullRequest
    \/ ApprovePullRequestVotes
    \/ RejectPullRequest
    \/ RejectPullRequestVotes
    \/ CompletePullRequest
    \/ CompletePullRequestWrites
    \/ AbandonPullRequest
    \/ ReactivatePullRequest
    \/ MergeStatusChanges
    \/ SourceCommitChanges
    \/ AnotherClientUpdates
    \/ ReturnToCaller

SpecTools == Init /\ [][NextTools]_vars

-----------------------------------------------------------------------------
(* Two complete_pull_request calls side by side.  Each call runs the        *)
(* statements of complete_pull_request, _complete_pull_request_impl and     *)
(* _update_pull_request_core_impl in order; the service sees the remote     *)
(* calls of the two in any interleaving.  Here calls is the log of the      *)
(* service: every call carries the caller that issued it.                   *)

ConcurrentArguments ==
    {a \in CompleteArguments :
        a.merge_strategy \in {"squash", "merge"} /\ a.delete_source_branch}

CompletionUpdateData_latest_read(a, existing_pull_request) ==
    LET reads == {i \in 1..Len(calls) :
                    /\ calls[i].api = "get_pull_request"
                    /\ calls[i].ret.pr # None}
        latest == CHOOSE i \in reads : \A j \in reads : j <= i
    IN  SuppliedFields(
            CoreArguments(a, None, None, Some("completed"),
                          Some(GitPullRequestCompletionOptions(
                                   a.merge_strategy, a.delete_source_branch))))
        @@ ("last_merge_source_commit"
              :> calls[latest].ret.pr[1].last_merge_source_commit)

\* lines 389-405 for a completion: the fields given and the commit of the
\* pull request this call has read
CompletionUpdateData(a, existing_pull_request) ==
    SuppliedFields(
        CoreArguments(a, None, None, Some("completed"),
                      Some(GitPullRequestCompletionOptions(
                               a.merge_strategy, a.delete_source_branch))))
    @@ ("last_merge_source_commit"
          :> existing_pull_request.last_merge_source_commit)

\* caller p invokes complete_pull_request: get_git_client()
BeginComplete(p) ==
    /\ pc = "idle"
    /\ inflight[p].pc = "idle"
    /\ \E a \in ConcurrentArguments, git \in ClientStates :
         inflight' =
           [inflight EXCEPT ![p] =
              IF get_git_client(git).raised
              THEN [pc |-> "returned", args |-> a, git |-> git,
                    out |-> Return(ClientErrorText(get_git_client(git).val))]
              ELSE [pc |-> "read", args |-> a, git |-> git]]
    /\ UNCHANGED <<pc, op, calls, result, remote>>

\* caller p issues client.get_pull_request (lines 400-404)
CompleteReads(p) ==
    /\ inflight[p].pc = "read"
    /\ \E read \in ReadResponses :
         LET a == inflight[p].args
             existing == RemoteGet(remote, read)
             read_call == [api |-> "get_pull_request",
                           by |-> p,
                           project |-> a.project_id_or_name,
                           repository_id |-> a.repository_id,
                           pull_request_id |-> a.pull_request_id,
                           ret |-> existing]
             failure == IF existing.raises THEN existing.msg ELSE NoneHasNoAttribute
         IN  /\ calls' = Append(calls, read_call)
             /\ inflight' =
                  [inflight EXCEPT ![p] =
                     IF existing.raises \/ existing.pr = None
                     THEN [pc |-> "returned", args |-> a, git |-> inflight[p].git,
                           out |-> Return(<<"Error", " completing pull request: ">>
                                          \o failure)]
                     ELSE [pc |-> "write", args |-> a, git |-> inflight[p].git,
                           existing_pull_request |-> existing.pr[1]]]
    /\ UNCHANGED <<pc, op, result, remote>>

\* caller p issues client.update_pull_request (lines 414-419) and returns
\* (lines 590-593)
CompleteWrites(p) ==
    /\ inflight[p].pc = "write"
    /\ \E write \in WriteResponses :
         LET a == inflight[p].args
             update_data == CompletionUpdateData(a, inflight[p].existing_pull_request)
             written == RemoteUpdate(remote, update_data, write)
             write_call == [api |-> "update_pull_request",
                            by |-> p,
                            project |-> a.project_id_or_name,
                            repository_id |-> a.repository_id,
                            pull_request_id |-> a.pull_request_id,
                            git_pull_request_to_update |-> update_data,
                            ret |-> written]
             completed_by == IF written.pr[1].closed_by # None
                             THEN written.pr[1].closed_by[1].display_name
                             ELSE <<"Unknown">>
         IN  /\ calls' = Append(calls, write_call)
             /\ remote' = RemoteAfterUpdate(remote, update_data, write)
             /\ inflight' =
                  [inflight EXCEPT ![p] =
                     [pc |-> "returned", args |-> a, git |-> inflight[p].git,
                      out |-> IF written.raises
                              THEN Return(<<"Error", " completing pull request: ">>
                                          \o written.msg)
                              ELSE Return(<<"Pull request ", IntStr(a.pull_request_id),
                                            " completed successfully by ">>
                                          \o completed_by
                                          \o <<"\n", "Merge strategy: ", a.merge_strategy,
                                               "\n", "Source branch deleted: ",
                                               BoolStr(a.delete_source_branch)>>)]]
    /\ UNCHANGED <<pc, op, result>>

NextConcurrent ==
    \/ \E p \in Callers : BeginComplete(p)
    \/ \E p \in Callers : CompleteReads(p)
    \/ \E p \in Callers : CompleteWrites(p)
    \/ SourceCommitChanges

SpecConcurrent == Init /\ [][NextConcurrent]_vars

NextResolve == ResolveReviewer \/ ReturnToCaller

SpecResolve == Init /\ [][NextResolve]_vars

\* every operation of the model.  A session is either one caller invoking
\* the tools in turn (calls holds the calls of the tool that runs) or the two
\* callers side by side (calls is the log of the service): a tool starts in
\* turn only while no side-by-side caller has started, and those start only
\* between tools.
Next == NextResolve \/ NextCreate \/ NextUpdate \/ NextVote \/ NextThread \/ NextRead \/ NextTools
        \/ NextConcurrent

Spec == Init /\ [][Next]_vars

-----------------------------------------------------------------------------
(* The identity resolver: C5, C6, C7 *)

Resolved == pc = "done" /\ op.name = "resolve_reviewer_guid"

AllHex(s, a, b) == \A k \in a..b : s[k] \in HexDigits

\* the canonical GUID form: hex groups of 8, 4, 4, 4 and 12, dashes between
GuidPattern(s) ==
    /\ Len(s) = 36
    /\ s[9] = "-" /\ s[14] = "-" /\ s[19] = "-" /\ s[24] = "-"
    /\ AllHex(s, 1, 8) /\ AllHex(s, 10, 13) /\ AllHex(s, 15, 18)
    /\ AllHex(s, 20, 23) /\ AllHex(s, 25, 36)

AtPositions(s) == {i \in 1..Len(s) : s[i] = "@"}

\* exactly one "@", with something before it and something after it
OneAtWithBothParts(s) ==
    /\ Cardinality(AtPositions(s)) = 1
    /\ \A i \in AtPositions(s) : 1 < i /\ i < Len(s)

\* local@x.y: exactly one "@", no whitespace, a non-empty local part, and a
\* domain with a dot that has something on both of its sides
MailPattern(s) ==
    /\ OneAtWithBothParts(s)
    /\ \A k \in 1..Len(s) : s[k] \notin Whitespace
    /\ \A i \in AtPositions(s) :
          \E j \in (i + 2)..(Len(s) - 1) : s[j] = "."

\* C5: a reference in the GUID pattern, in either case, is returned unchanged
\* and no identity-service call is issued.
C5_GuidReturnedVerbatimNoCall ==
    (Resolved /\ GuidPattern(op.reviewer))
        => (calls = <<>> /\ result = Return(op.reviewer))

C5_Witness ==
    /\ Resolved
    /\ GuidPattern(op.reviewer)
    /\ \E i \in 1..Len(op.reviewer) : op.reviewer[i] = "F"
    /\ \E i \in 1..Len(op.reviewer) : op.reviewer[i] = "a"
    /\ result = Return(op.reviewer)

\* C6 as stated: a non-GUID reference with exactly one "@" and non-empty
\* local and domain parts is looked up by mail address, every other
\* non-GUID reference by display name.
C6_Original ==
    (Resolved /\ ~GuidPattern(op.reviewer))
        => /\ Len(calls) = 1
           /\ calls[1].search_filter =
                 IF OneAtWithBothParts(op.reviewer) THEN "MailAddress"
                 ELSE "DisplayName"

\* C6 amended: a non-GUID reference is looked up by mail address exactly when
\* it has the form local@x.y (one "@", no whitespace, local, x and y
\* non-empty); every other non-GUID reference is looked up by display name.
C6_MailLookupIffMailPattern ==
    (Resolved /\ ~GuidPattern(op.reviewer))
        => /\ Len(calls) = 1
           /\ calls[1].api = "read_identities"
           /\ calls[1].filter_value = op.reviewer
           /\ calls[1].search_filter =
                 IF MailPattern(op.reviewer) THEN "MailAddress"
                 ELSE "DisplayName"

\* "a@a" has one "@" between two non-empty parts and is looked up by name
C6_Witness ==
    /\ Resolved
    /\ op.reviewer = <<"a", "@", "a">>
    /\ Len(calls) = 1
    /\ calls[1].search_filter = "DisplayName"

CouldNotResolve(reviewer) ==
    <<"Could not resolve reviewer '">> \o reviewer \o <<"' to a GUID.">>

\* C7: a non-GUID reference costs exactly one lookup; a non-empty answer
\* yields the id of its first identity, an empty answer or a raising lookup
\* yields a raised failure whose message holds the reference and the cause
\* and is not the transport error's own message.
C7_OneLookupFirstMatchOrWrappedFailure ==
    (Resolved /\ ~GuidPattern(op.reviewer))
        => /\ Len(calls) = 1
           /\ calls[1].api = "read_identities"
           /\ LET r == calls[1].ret
                   cause == IF r.raises THEN r.msg
                            ELSE CouldNotResolve(op.reviewer)
               IN  IF ~r.raises /\ Len(r.ids) > 0
                   THEN result = Return(r.ids[1])
                   ELSE /\ result.raised
                        /\ Contains(result.val, op.reviewer)
                        /\ Contains(result.val, cause)
                        /\ result.val # cause

C7_Witness ==
    /\ Resolved
    /\ Len(op.reviewer) > 0
    /\ Len(calls) = 1
    /\ calls[1].ret.raises
    /\ result.raised
    /\ Contains(result.val, calls[1].ret.msg)

-----------------------------------------------------------------------------
(* Creation and its reviewers: C2, C10 *)

\* a create_pull_request tool call has run with both clients at hand
Created ==
    /\ pc = "done"
    /\ op.name = "create_pull_request"
    /\ op.git = "ok"
    /\ op.identity = "ok"

\* such a call is in progress (it has a further remote call to make) or has
\* returned
Creating ==
    /\ pc \in {"waiting", "done"}
    /\ op.name = "create_pull_request"
    /\ op.git = "ok"
    /\ op.identity = "ok"

CallsOf(api) == {i \in 1..Len(calls) : calls[i].api = api}

\* the lookups of the call that came back empty or raised
FailedLookups ==
    {i \in CallsOf("read_identities") :
        calls[i].ret.raises \/ calls[i].ret.ids = <<>>}

\* the references in the order the payload lists them
GivenReviewers ==
    ListOrEmpty(op.args.optional_reviewers) \o ListOrEmpty(op.args.required_reviewers)

\* how many of the first i references are not GUIDs, that is, which lookup
\* of the call is the one for reference i
LookupNumber(refs, i) == Cardinality({k \in 1..i : ~GuidPattern(refs[k])})

\* C2: if a reviewer of either list, at any position, cannot be resolved (its
\* lookup comes back empty or raises), create_pull_request is never called
\* and the returned text names that reviewer: the tool returns with the
\* answer to that lookup.
C2_UnresolvedReviewerNoCreate ==
    (Creating /\ FailedLookups # {})
        => /\ pc = "done"
           /\ CallsOf("create_pull_request") = {}
           /\ \E i \in FailedLookups :
                /\ \E k \in 1..Len(GivenReviewers) :
                     GivenReviewers[k] = calls[i].filter_value
                /\ calls[i].filter_value # <<>>
                /\ Contains(result.val, calls[i].filter_value)
           /\ ~result.raised
           /\ StartsWith(result.val, <<"Error">>)

\* the second required reviewer fails after an optional one has resolved
C2_Witness ==
    /\ Created
    /\ Len(ListOrEmpty(op.args.optional_reviewers)) = 1
    /\ Len(ListOrEmpty(op.args.required_reviewers)) = 2
    /\ Len(calls) = 3
    /\ FailedLookups = {3}
    /\ calls[3].ret.ids = <<>> /\ ~calls[3].ret.raises
    /\ Contains(result.val, op.args.required_reviewers[1][2])

\* C10: when every reviewer resolves, the payload given to
\* create_pull_request lists one reviewer per reference, with the id the
\* reference resolved to, is_required false for the optional_reviewers
\* entries and true for the required_reviewers entries.
C10_ReviewerEntriesMatchInput ==
    (Created /\ FailedLookups = {})
        => /\ Cardinality(CallsOf("create_pull_request")) = 1
           /\ \A c \in CallsOf("create_pull_request") :
                LET reviewers == calls[c].git_pull_request_to_create.reviewers
                    n_optional == Len(ListOrEmpty(op.args.optional_reviewers))
                IN  /\ Len(reviewers) = Len(GivenReviewers)
                    /\ \A k \in 1..Len(GivenReviewers) :
                         /\ reviewers[k].is_required = (k > n_optional)
                         /\ IF GuidPattern(GivenReviewers[k])
                            THEN reviewers[k].id = GivenReviewers[k]
                            ELSE LET l == calls[LookupNumber(GivenReviewers, k)]
                                 IN  /\ l.api = "read_identities"
                                     /\ l.filter_value = GivenReviewers[k]
                                     /\ reviewers[k].id = l.ret.ids[1]

\* one optional reviewer by mail address, two required ones by GUID and name
C10_Witness ==
    /\ Created
    /\ op.args.optional_reviewers = Some(<<<<"a", "@", "b", ".", "c">>>>)
    /\ op.args.required_reviewers = Some(<<Guid("1"), <<"B", "o", "b">>>>)
    /\ Len(calls) = 3
    /\ calls[1].search_filter = "MailAddress"
    /\ calls[1].ret.ids = <<Guid("2"), Guid("1")>>
    /\ calls[3].api = "create_pull_request"
    /\ calls[3].git_pull_request_to_create.reviewers =
         <<[id |-> Guid("2"), is_required |-> FALSE],
           [id |-> Guid("1"), is_required |-> TRUE],
           [id |-> Guid("1"), is_required |-> TRUE]>>

-----------------------------------------------------------------------------
(* Updates and completion: C1, C3, C8, C9 *)

UpdateOperations ==
    {"update_pull_request", "complete_pull_request", "abandon_pull_request",
     "reactivate_pull_request", "update_pull_request_core"}

\* an update operation has run with the git client at hand
Updated(o) == o.name \in UpdateOperations /\ o.git = "ok"

\* what the operation o hands to the update as title, description, status
\* and completion options (None: not given)
Given(o) ==
    CASE o.name = "update_pull_request" ->
           [title |-> o.args.title, description |-> o.args.description,
            status |-> None, completion_options |-> None]
      [] o.name = "complete_pull_request" ->
           [title |-> None, description |-> None,
            status |-> Some("completed"),
            completion_options |->
                Some([merge_strategy |-> o.args.merge_strategy,
                      delete_source_branch |-> o.args.delete_source_branch])]
      [] o.name = "abandon_pull_request" ->
           [title |-> None, description |-> None,
            status |-> Some("abandoned"), completion_options |-> None]
      [] o.name = "reactivate_pull_request" ->
           [title |-> None, description |-> None,
            status |-> Some("active"), completion_options |-> None]
      [] o.name = "update_pull_request_core" ->
           [title |-> o.args.title, description |-> o.args.description,
            status |-> o.args.status,
            completion_options |-> o.args.completion_options]

UpdatableFields == {"title", "description", "status", "completion_options"}

GivenFields(o) == {f \in UpdatableFields : Given(o)[f] # None}

Completing(o) == Updated(o) /\ Given(o).status = Some("completed")

\* the read of a completion returned the pull request
ReadReturned(log) ==
    /\ Len(log) >= 1
    /\ log[1].api = "get_pull_request"
    /\ ~log[1].ret.raises
    /\ log[1].ret.pr # None

\* C1: an update to status completed issues exactly one get_pull_request, of
\* the pull request it updates, as its first remote call; at most one
\* update_pull_request, which follows the read immediately; and the payload
\* written carries the last_merge_source_commit that read returned.
C1_CompletionReadsOnceThenWrites ==
    (pc = "done" /\ Completing(op))
        => /\ CallsOf("get_pull_request") = {1}
           /\ calls[1].pull_request_id = op.args.pull_request_id
           /\ IF ReadReturned(calls)
              THEN /\ Len(calls) = 2
                   /\ calls[2].api = "update_pull_request"
                   /\ calls[2].pull_request_id = op.args.pull_request_id
                   /\ "last_merge_source_commit"
                        \in DOMAIN calls[2].git_pull_request_to_update
                   /\ calls[2].git_pull_request_to_update["last_merge_source_commit"]
                        = calls[1].ret.pr[1].last_merge_source_commit
              ELSE Len(calls) = 1

\* a completion after the commit has moved from c1 to c2
C1_Witness ==
    /\ pc = "done"
    /\ op.name = "complete_pull_request"
    /\ Len(calls) = 2
    /\ calls[1].api = "get_pull_request"
    /\ calls[1].ret.pr[1].last_merge_source_commit = Some("c2")
    /\ calls[2].api = "update_pull_request"
    /\ calls[2].git_pull_request_to_update["last_merge_source_commit"] = Some("c2")

\* C3: an update that gives no title, description, completion options or
\* status fails with the empty-update error and issues no remote call.
C3_EmptyUpdateNoCall ==
    (pc = "done" /\ Updated(op) /\ GivenFields(op) = {})
        => /\ calls = <<>>
           /\ IF op.name = "update_pull_request_core"
              THEN result.raised
              ELSE ~result.raised /\ StartsWith(result.val, <<"Error">>)
           /\ Contains(result.val, <<"No update parameters provided">>)

C3_Witness ==
    /\ pc = "done"
    /\ op.name = "update_pull_request"
    /\ op.git = "ok"
    /\ op.args.title = None
    /\ op.args.description = None
    /\ calls = <<>>
    /\ result = Return(<<"Error", " updating pull request: ", "Error", ": ",
                         "No update parameters provided">>)

\* C8: the payload of an update write holds exactly the fields that were
\* given, each with the value given, and last_merge_source_commit besides
\* exactly when the status given is completed; and the title, description
\* and status the service holds when the write arrives change only if they
\* were given.
C8_PayloadHoldsExactlyGivenFields ==
    [][(pc # "done" /\ pc' = "done" /\ Updated(op'))
        => /\ \A i \in 1..Len(calls') :
                calls'[i].api = "update_pull_request"
                  => LET payload == calls'[i].git_pull_request_to_update
                     IN  /\ DOMAIN payload =
                               GivenFields(op')
                               \cup (IF Given(op').status = Some("completed")
                                     THEN {"last_merge_source_commit"} ELSE {})
                         /\ \A f \in GivenFields(op') : payload[f] = Given(op')[f][1]
           /\ \A f \in {"title", "description", "status"} \ GivenFields(op') :
                remote'[f] = remote[f]]_vars

\* only a description was given: the write carries it and nothing else
C8_Witness ==
    /\ pc = "done"
    /\ op.name = "update_pull_request"
    /\ op.args.title = None
    /\ op.args.description = Some(<<"D1">>)
    /\ Len(calls) = 1
    /\ DOMAIN calls[1].git_pull_request_to_update = {"description"}
    /\ ~calls[1].ret.raises
    /\ remote.title = <<"T0">>
    /\ remote.description = <<"D1">>

\* C9: complete_pull_request with a merge strategy and a delete flag, on a
\* pull request whose read returns last merge source commit c, issues an
\* update whose payload has status completed, completion options with that
\* strategy and that flag, and last_merge_source_commit c.
C9_CompletionPayload ==
    (/\ pc = "done"
     /\ op.name = "complete_pull_request"
     /\ op.git = "ok"
     /\ \E i \in CallsOf("get_pull_request") :
          ~calls[i].ret.raises /\ calls[i].ret.pr # None)
        => /\ Cardinality(CallsOf("update_pull_request")) = 1
           /\ \A w \in CallsOf("update_pull_request") :
                LET payload == calls[w].git_pull_request_to_update
                IN  /\ calls[w].pull_request_id = op.args.pull_request_id
                    /\ payload["status"] = "completed"
                    /\ payload["completion_options"].merge_strategy
                         = op.args.merge_strategy
                    /\ payload["completion_options"].delete_source_branch
                         = op.args.delete_source_branch
                    /\ \A i \in CallsOf("get_pull_request") :
                         payload["last_merge_source_commit"]
                           = calls[i].ret.pr[1].last_merge_source_commit

C9_Witness ==
    /\ pc = "done"
    /\ op.name = "complete_pull_request"
    /\ op.args.merge_strategy = "rebaseMerge"
    /\ op.args.delete_source_branch
    /\ Len(calls) = 2
    /\ calls[1].ret.pr # None
    /\ calls[1].ret.pr[1].last_merge_source_commit = Some("c1")
    /\ calls[2].git_pull_request_to_update["completion_options"]
         = [merge_strategy |-> "rebaseMerge", delete_source_branch |-> TRUE]
    /\ calls[2].git_pull_request_to_update["last_merge_source_commit"] = Some("c1")

-----------------------------------------------------------------------------
(* Votes: C4 *)

\* C4: approve writes the vote 10 and reject the vote -10, always for the
\* identity get_self returned for the authenticating credential: the id in
\* the payload and the reviewer_id the write addresses are the caller's own
\* id, whatever project, repository and pull request id the invoker gives.
C4_VoteTargetsCaller ==
    (pc \in {"waiting", "done"}
     /\ op.name \in {"approve_pull_request", "reject_pull_request"})
        => /\ \A w \in CallsOf("create_pull_request_reviewer") :
                /\ w = 2
                /\ calls[1].api = "get_self"
                /\ ~calls[1].ret.raises
                /\ calls[1].ret.id = op.credential
                /\ calls[w].reviewer.id = op.credential
                /\ calls[w].reviewer_id = op.credential
                /\ calls[w].reviewer.vote =
                     (IF op.name = "approve_pull_request" THEN 10 ELSE -10)
                /\ calls[w].pull_request_id = op.args.pull_request_id
           /\ (pc = "done" /\ op.git = "ok" /\ op.identity = "ok"
               /\ ~calls[1].ret.raises)
                => Cardinality(CallsOf("create_pull_request_reviewer")) = 1
           \* between the two calls: get_self has answered with the caller's id
           /\ pc = "waiting"
                => /\ op.git = "ok" /\ op.identity = "ok"
                   /\ Len(calls) = 1
                   /\ calls[1].api = "get_self"
                   /\ ~calls[1].ret.raises
                   /\ calls[1].ret.id = op.credential

\* a rejection by the holder of the second identity, on the other project
C4_Witness ==
    /\ pc = "done"
    /\ op.name = "reject_pull_request"
    /\ op.credential = Guid("2")
    /\ op.args.project_id_or_name = "other"
    /\ Len(calls) = 2
    /\ calls[2].api = "create_pull_request_reviewer"
    /\ calls[2].reviewer = [id |-> Guid("2"), vote |-> -10]
    /\ calls[2].reviewer_id = Guid("2")
    /\ ~calls[2].ret.raises

-----------------------------------------------------------------------------
(* Threads and comments: C11, C12, C13 *)

\* an add_comment call that obtained its client has returned
Commented == pc = "done" /\ op.name = "add_comment" /\ op.git = "ok"

\* C11: an add_comment call without a thread id issues exactly one call, a
\* create_thread, and no create_comment; the thread it submits holds exactly
\* one comment, whose content is the given content, and has status active.
C11_NoThreadIdCreatesOneThread ==
    (Commented /\ op.args.comment_thread_id = None)
        => /\ Len(calls) = 1
           /\ calls[1].api = "create_thread"
           /\ calls[1].pull_request_id = op.args.pull_request_id
           /\ Len(calls[1].comment_thread.comments) = 1
           /\ calls[1].comment_thread.comments[1].content = op.args.content
           /\ calls[1].comment_thread.status = "active"

\* a comment without thread id, given together with a parent comment id, that
\* the service accepted
C11_Witness ==
    /\ Commented
    /\ op.args.comment_thread_id = None
    /\ op.args.parent_comment_id = Some(CommentId)
    /\ op.args.content = <<"Looks good">>
    /\ CallsOf("create_thread") = {1}
    /\ ~calls[1].ret.raises
    /\ result.val = <<"Comment added successfully to thread ID: ", "8">>

\* C12: whenever add_comment is given a thread id, whatever integer it is,
\* exactly one call is issued, a create_comment addressed to that thread id,
\* and no thread is created.
C12_ThreadIdGivenAppendsToThread ==
    (Commented /\ op.args.comment_thread_id # None)
        => /\ Len(calls) = 1
           /\ calls[1].api = "create_comment"
           /\ calls[1].thread_id = op.args.comment_thread_id[1]
           /\ calls[1].comment.content = op.args.content
           /\ CallsOf("create_thread") = {}

\* a resolve_thread or reactivate_thread call that obtained its client
ThreadTools == {"resolve_thread", "reactivate_thread"}

StateWritten(name) == IF name = "resolve_thread" THEN "fixed" ELSE "active"

\* C13: resolve_thread and reactivate_thread issue exactly one call, an
\* update_thread that carries only the status (fixed, respectively active)
\* for the given thread id, and no read; when the service accepts the write
\* the thread has that status afterwards whatever status it had before, so a
\* reactivation after a resolution leaves the thread active.
C13_ThreadStatusBlindOverwrite ==
    [][(pc = "idle" /\ pc' = "done" /\ op'.name \in ThreadTools /\ op'.git = "ok")
         => /\ Len(calls') = 1
            /\ calls'[1].api = "update_thread"
            /\ calls'[1].thread_id = op'.args.comment_thread_id
            /\ calls'[1].comment_thread = [status |-> StateWritten(op'.name)]
            /\ (~calls'[1].ret.raises /\ op'.args.comment_thread_id = ThreadId)
                 => remote'.thread_status = StateWritten(op'.name)
            /\ (calls'[1].ret.raises \/ op'.args.comment_thread_id # ThreadId)
                 => remote' = remote]_vars

\* a reactivation of the thread that the service accepted
C13_Witness ==
    /\ pc = "done"
    /\ op.name = "reactivate_thread"
    /\ op.git = "ok"
    /\ op.args.comment_thread_id = ThreadId
    /\ CallsOf("update_thread") = {1}
    /\ ~calls[1].ret.raises
    /\ remote.thread_status = "active"
    /\ result.val = <<"Thread ID ", "7", " successfully changed state to ", "active">>

-----------------------------------------------------------------------------
(* Reads: C17 *)

ReadOperations ==
    {"get_pull_requests", "get_pull_request", "get_pr_threads", "get_pr_work_items"}

ReadApis ==
    {"get_pull_requests", "get_pull_request", "get_threads",
     "get_pull_request_work_item_refs"}

\* a read tool that obtained its client has returned
ReadDone == pc = "done" /\ op.name \in ReadOperations /\ op.git = "ok"

\* the service answered the read call, with nothing
EmptyAnswer(call) ==
    /\ ~call.ret.raises
    /\ CASE call.api = "get_pull_requests" -> call.ret.prs = <<>>
         [] call.api = "get_pull_request" -> call.ret.pr = None
         [] call.api = "get_threads" -> call.ret.threads = <<>>
         [] OTHER -> call.ret.refs = <<>>

NotFoundTexts ==
    {<<"No pull requests found.">>, <<"Pull request not found.">>,
     <<"No PR threads found.">>, <<"No PR work items found.">>}

\* C17: a read operation issues one read call and no write; when the
\* service answers with nothing the operation returns its 'not found' text,
\* which is no error text, and when the call raises it returns an error text
\* with the service's message, so the two outcomes are told apart.
C17_EmptyReadIsNotAnError ==
    ReadDone
        => /\ Len(calls) = 1
           /\ calls[1].api \in ReadApis
           /\ ~result.raised
           /\ EmptyAnswer(calls[1])
                => /\ result.val \in NotFoundTexts
                   /\ ~StartsWith(result.val, <<"Error">>)
           /\ calls[1].ret.raises
                => /\ StartsWith(result.val, <<"Error">>)
                   /\ Contains(result.val, calls[1].ret.msg)
                   /\ result.val \notin NotFoundTexts

\* a get_pull_request that the service answered with no pull request
C17_Witness ==
    /\ ReadDone
    /\ op.name = "get_pull_request"
    /\ calls[1].api = "get_pull_request"
    /\ EmptyAnswer(calls[1])
    /\ result = Return(<<"Pull request not found.">>)

-----------------------------------------------------------------------------
(* The tool boundary: C14, C15, C16 *)

PublicOperations ==
    {"get_pull_requests", "get_pull_request", "get_pr_threads", "get_pr_work_items",
     "create_pull_request", "update_pull_request", "add_comment", "resolve_thread",
     "reactivate_thread", "approve_pull_request", "reject_pull_request",
     "complete_pull_request", "abandon_pull_request", "reactivate_pull_request"}

\* a public operation has returned
ToolDone == pc = "done" /\ op.name \in PublicOperations

IsText(v) == DOMAIN v = 1..Len(v) /\ \A i \in DOMAIN v : v[i] \in STRING

\* the operation could not obtain a client it asks for
ClientMissing ==
    \/ op.git # "ok"
    \/ "identity" \in DOMAIN op /\ op.identity # "ok"

\* C14: whatever the connection gives (none, no client, a client) and
\* whatever the service does with each call (returns or raises), every public
\* operation returns a text; none raises.
C14_NoFaultCrossesTheToolBoundary ==
    ToolDone => ~result.raised /\ IsText(result.val) /\ result.val # <<>>

\* a vote whose clients were obtained and whose write the service rejected
C14_Witness ==
    /\ ToolDone
    /\ op.name = "approve_pull_request"
    /\ ~ClientMissing
    /\ Len(calls) = 2
    /\ calls[2].api = "create_pull_request_reviewer"
    /\ calls[2].ret.raises
    /\ ~result.raised
    /\ IsText(result.val)

WriteApis ==
    {"create_pull_request", "update_pull_request", "create_pull_request_reviewer",
     "create_comment", "create_thread", "update_thread"}

\* the update_pull_request call named neither title nor description
EmptyUpdate ==
    /\ op.name = "update_pull_request"
    /\ op.args.title = None
    /\ op.args.description = None

\* the outcomes that are failures: no connection or no client, a reference
\* that resolved to nobody, an update without fields, a call the service
\* rejected
Failure ==
    /\ ToolDone
    /\ \/ ClientMissing
       \/ EmptyUpdate
       \/ \E i \in 1..Len(calls) :
            \/ calls[i].ret.raises
            \/ calls[i].api = "read_identities" /\ calls[i].ret.ids = <<>>
            \/ calls[i].api = "get_pull_request"
                 /\ op.name = "complete_pull_request" /\ calls[i].ret.pr = None

\* C15: every failure of a public operation is returned as a text that
\* begins with "Error:".
C15_FailureTextBeginsWithError ==
    Failure => StartsWith(result.val, <<"Error", ": ">>)

\* C16: whenever the service rejects the write of a write operation, the
\* text the operation returns contains the service's message.
C16_RejectedWriteReportsRemoteMessage ==
    ToolDone
        => \A i \in 1..Len(calls) :
             (calls[i].api \in WriteApis /\ calls[i].ret.raises)
                 => Contains(result.val, calls[i].ret.msg)

-----------------------------------------------------------------------------
(* Completion: C18, C19, C20 *)

DocumentedStrategies == {"squash", "rebase", "rebaseMerge", "merge"}

\* the update_pull_request calls of the log that write status completed
CompletionWrites(log) ==
    {i \in 1..Len(log) :
        /\ log[i].api = "update_pull_request"
        /\ "status" \in DOMAIN log[i].git_pull_request_to_update
        /\ log[i].git_pull_request_to_update["status"] = "completed"}

\* C18: a write of status completed is issued only with a merge strategy
\* from squash, rebase, rebaseMerge, merge; a complete_pull_request call given
\* any other strategy issues no such write.
C18_CompletionOnlyWithDocumentedStrategy ==
    (pc = "done" /\ op.name = "complete_pull_request")
        => /\ \A i \in CompletionWrites(calls) :
                calls[i].git_pull_request_to_update["completion_options"].merge_strategy
                    \in DocumentedStrategies
           /\ op.args.merge_strategy \notin DocumentedStrategies
                => CompletionWrites(calls) = {}

\* C19: while the pull request's last merge source commit changes between
\* operations, the read of each completion returns the commit the service
\* holds when that read arrives, and the write of the completion carries the
\* commit its own read returned, never the commit an earlier operation read.
C19_CompletionWritesFreshCommit ==
    [][/\ (pc = "idle" /\ pc' \in {"waiting", "done"} /\ Completing(op')
            /\ ReadReturned(calls'))
          => calls'[1].ret.pr[1].last_merge_source_commit
               = remote.last_merge_source_commit
       /\ (pc # "done" /\ pc' = "done" /\ Completing(op'))
          => /\ pc = "waiting" => calls'[1] = calls[1]
             /\ \A i \in CompletionWrites(calls') :
                  /\ i = 2
                  /\ ReadReturned(calls')
                  /\ calls'[i].git_pull_request_to_update["last_merge_source_commit"]
                       = calls'[1].ret.pr[1].last_merge_source_commit]_vars

\* a completion that ran after the commit had changed from the one the pull
\* request started with: it read and wrote the new one
C19_Witness ==
    /\ pc = "done"
    /\ op.name = "complete_pull_request"
    /\ op.git = "ok"
    /\ CompletionWrites(calls) = {2}
    /\ ReadReturned(calls)
    /\ calls[1].ret.pr[1].last_merge_source_commit = Some("c2")
    /\ calls[2].git_pull_request_to_update["last_merge_source_commit"] = Some("c2")
    /\ ~calls[2].ret.raises
    /\ remote.status = "completed"

\* C20: every write of status completed carries a last merge source commit
\* that is present; when the read before it raises, returns no pull request,
\* or returns a pull request without that commit, no such write is issued.
C20_CompletionCarriesPresentCommit ==
    (pc = "done" /\ Completing(op))
        => /\ \A i \in CompletionWrites(calls) :
                /\ "last_merge_source_commit"
                     \in DOMAIN calls[i].git_pull_request_to_update
                /\ calls[i].git_pull_request_to_update["last_merge_source_commit"]
                     # None
           /\ (\/ ~ReadReturned(calls)
               \/ calls[1].ret.pr[1].last_merge_source_commit = None)
                => CompletionWrites(calls) = {}

-----------------------------------------------------------------------------
(* Round trips of the lifecycle operations: C21 *)

LifecycleTools ==
    {"update_pull_request", "complete_pull_request", "abandon_pull_request",
     "reactivate_pull_request"}

\* the status a lifecycle tool writes
TargetStatus(name) ==
    CASE name = "complete_pull_request" -> "completed"
      [] name = "abandon_pull_request" -> "abandoned"
      [] OTHER -> "active"

\* C21: whatever status the pull request has when the call starts, abandon,
\* reactivate and an update that names a title or a description issue exactly
\* one remote call, the update write, and no read; complete issues the read
\* and, when the read returned the pull request, the write right after it.
\* The status tools write their status again on a pull request that already
\* has it.
C21_OneWriteNoPreCheck ==
    [][(pc # "done" /\ pc' = "done" /\ op'.name \in LifecycleTools /\ op'.git = "ok")
         => IF op'.name = "complete_pull_request"
            THEN /\ Len(calls') >= 1
                 /\ calls'[1].api = "get_pull_request"
                 /\ IF ReadReturned(calls')
                    THEN /\ Len(calls') = 2
                         /\ calls'[2].api = "update_pull_request"
                         /\ calls'[2].git_pull_request_to_update["status"] = "completed"
                    ELSE Len(calls') = 1
            ELSE IF op'.name = "update_pull_request"
            THEN IF op'.args.title = None /\ op'.args.description = None
                 THEN calls' = <<>>
                 ELSE Len(calls') = 1 /\ calls'[1].api = "update_pull_request"
            ELSE /\ Len(calls') = 1
                 /\ calls'[1].api = "update_pull_request"
                 /\ calls'[1].git_pull_request_to_update
                      = [status |-> TargetStatus(op'.name)]
                 /\ ~calls'[1].ret.raises
                      => remote'.status = TargetStatus(op'.name)]_vars

\* a completion of a pull request that the read shows completed already: the
\* write is issued again
C21_Witness ==
    /\ pc = "done"
    /\ op.name = "complete_pull_request"
    /\ op.git = "ok"
    /\ Len(calls) = 2
    /\ calls[1].api = "get_pull_request"
    /\ ReadReturned(calls)
    /\ calls[1].ret.pr[1].status = "completed"
    /\ calls[2].api = "update_pull_request"
    /\ calls[2].git_pull_request_to_update["status"] = "completed"
    /\ ~calls[2].ret.raises

-----------------------------------------------------------------------------
(* Failures are terminal: C22 *)

\* the first piece of every text that reports a failure
FailureOpenings ==
    {"Error", "Failed to abandon pull request #", "Failed to reactivate pull request #"}

\* a public operation is in progress (it has a further remote call to make)
\* or has returned
ToolStarted == pc \in {"waiting", "done"} /\ op.name \in PublicOperations

\* C22: once a remote call of an operation raises, the operation issues no
\* further remote call, neither the same call again nor another one, and
\* returns a failure text (the raising call is the last of its log and the
\* operation has returned with it); after a failed get_self no reviewer vote
\* is written, after a failed completion read no update is written and after
\* a failed lookup nothing is created.
C22_FailureIsTerminal ==
    ToolStarted
        => \A i \in 1..Len(calls) :
             calls[i].ret.raises
                 => /\ i = Len(calls)
                    /\ pc = "done"
                    /\ ~result.raised
                    /\ result.val # <<>>
                    /\ result.val[1] \in FailureOpenings
                    /\ calls[i].api = "get_self"
                         => CallsOf("create_pull_request_reviewer") = {}
                    /\ calls[i].api = "get_pull_request"
                         => CallsOf("update_pull_request") = {}
                    /\ calls[i].api = "read_identities"
                         => CallsOf("create_pull_request") = {}

\* a create that names two reviewers to look up: the lookup of the first
\* raised, the second was never looked up and nothing was created
C22_Witness ==
    /\ ToolDone
    /\ op.name = "create_pull_request"
    /\ ~ClientMissing
    /\ op.args.optional_reviewers = None
    /\ op.args.required_reviewers = Some(<<<<"B", "o", "b">>, <<"B", "o", "b">>>>)
    /\ Len(calls) = 1
    /\ calls[1].api = "read_identities"
    /\ calls[1].filter_value = <<"B", "o", "b">>
    /\ calls[1].ret.raises
    /\ StartsWith(result.val, <<"Error", " creating pull request: ",
                                "Failed to resolve reviewer '">>)

-----------------------------------------------------------------------------
(* Order of the reviewer lookups and uniqueness of the reviewers: C23, C24 *)

NotGuid(s) == ~GuidPattern(s)

\* the references that need a lookup, in the order the lists are walked:
\* optional_reviewers, then required_reviewers
ReferencesToLookUp == SelectSeq(GivenReviewers, NotGuid)

\* the calls of a create so far: the lookups are its first calls, one per
\* non-GUID reference in list order, none of them follows a failed one, and
\* create_pull_request comes after the lookup of the last reference
LookupsInOrder ==
    LET lookups == CallsOf("read_identities")
        n == Cardinality(lookups)
    IN  /\ lookups = 1..n
        /\ n <= Len(ReferencesToLookUp)
        /\ \A i \in lookups :
             /\ calls[i].filter_value = ReferencesToLookUp[i]
             /\ i \in FailedLookups => i = n /\ pc = "done"
        /\ (pc = "done" /\ FailedLookups = {}) => n = Len(ReferencesToLookUp)
        /\ CallsOf("create_pull_request") \subseteq {n + 1}
        /\ CallsOf("create_pull_request") # {}
             => n = Len(ReferencesToLookUp) /\ FailedLookups = {} /\ pc = "done"
        /\ Len(calls) <= n + 1

\* C23: the identity lookups of a create are the first calls of the
\* operation, one per non-GUID reference in list order, up to and including
\* the first one that fails (all of them if none fails); no lookup follows a
\* failed one and create_pull_request, if issued, comes after all of them.
\* The calls are made one at a time: every step of a create adds at most one
\* call to the calls made before it, which it leaves as they are.
C23_LookupsInOrderUntilFirstFailure ==
    [][/\ Creating' => LookupsInOrder'
       /\ (pc = "idle" /\ Creating') => Len(calls') <= 1
       /\ (pc = "waiting" /\ op.name = "create_pull_request")
            => /\ Creating' /\ op' = op
               /\ Len(calls') = Len(calls) + 1
               /\ SubSeq(calls', 1, Len(calls)) = calls]_vars

\* three named reviewers: the first resolves, the second does not, the
\* third is never looked up
C23_Witness ==
    /\ Created
    /\ Len(ReferencesToLookUp) = 3
    /\ Len(ListOrEmpty(op.args.optional_reviewers)) = 1
    /\ Len(calls) = 2
    /\ CallsOf("read_identities") = {1, 2}
    /\ FailedLookups = {2}
    /\ calls[2].ret.raises

\* C24: the reviewers of the payload a create submits are unique by
\* identity id, whatever references were given and in whichever list.
C24_SubmittedReviewersUniqueById ==
    Created
        => \A c \in CallsOf("create_pull_request") :
             LET reviewers == calls[c].git_pull_request_to_create.reviewers
             IN  \A i, j \in 1..Len(reviewers) :
                   reviewers[i].id = reviewers[j].id => i = j

-----------------------------------------------------------------------------
(* The texts of abandon: C25 *)

\* an abandon_pull_request call that obtained its client has returned
Abandoned == pc = "done" /\ op.name = "abandon_pull_request" /\ op.git = "ok"

\* C25: when the status write of abandon raises, the text returned is fixed
\* by the pull request id alone, so two runs that differ only in the error
\* raised return the same text; the success text is returned exactly when
\* the write returned.
C25_AbandonFailureTextIsFixed ==
    Abandoned
        => /\ Len(calls) = 1
           /\ calls[1].api = "update_pull_request"
           /\ calls[1].ret.raises
                => result = Return(<<"Failed to abandon pull request #",
                                     IntStr(op.args.pull_request_id), ".">>)
           /\ ~calls[1].ret.raises
                <=> result = Return(<<"Successfully abandoned pull request #",
                                      IntStr(op.args.pull_request_id), ".">>)

\* an abandon whose write the service rejected as not authorized
C25_Witness ==
    /\ Abandoned
    /\ calls[1].ret.raises
    /\ calls[1].ret.msg = <<"TF400813: not authorized">>
    /\ result.val = <<"Failed to abandon pull request #", "42", ".">>
    /\ remote.status # "abandoned"

-----------------------------------------------------------------------------
(* Two completions side by side: C26 *)

\* the reads and the writes of caller p in the service's log
ReadsBy(p) == {i \in 1..Len(calls) : calls[i].api = "get_pull_request" /\ calls[i].by = p}

WritesBy(p) ==
    {i \in 1..Len(calls) : calls[i].api = "update_pull_request" /\ calls[i].by = p}

\* the read of caller p returned the pull request
OwnReadReturned(p) ==
    \E i \in ReadsBy(p) : ~calls[i].ret.raises /\ calls[i].ret.pr # None

\* C26: in every interleaving of two completions each caller that obtained
\* its client issues its own read and, when that read returned the pull
\* request, its own write after it, whatever the other caller has done in
\* between; the write carries status completed and the commit of the
\* caller's own read.  Nothing is skipped or merged, so both writes reach
\* the service.
C26_EachCompletionReadsAndWritesItself ==
    \A p \in Callers :
        /\ Cardinality(ReadsBy(p)) <= 1
        /\ Cardinality(WritesBy(p)) <= 1
        /\ inflight[p].pc = "idle" => ReadsBy(p) = {} /\ WritesBy(p) = {}
        /\ inflight[p].pc = "write" => OwnReadReturned(p) /\ WritesBy(p) = {}
        /\ (inflight[p].pc = "returned" /\ inflight[p].git = "ok")
             => /\ Cardinality(ReadsBy(p)) = 1
                /\ OwnReadReturned(p) <=> Cardinality(WritesBy(p)) = 1
        /\ \A w \in WritesBy(p) :
             \E r \in ReadsBy(p) :
                /\ r < w
                /\ OwnReadReturned(p)
                /\ calls[w].git_pull_request_to_update["status"] = "completed"
                /\ calls[w].git_pull_request_to_update["last_merge_source_commit"]
                     = calls[r].ret.pr[1].last_merge_source_commit

\* one caller reads, the commit changes, the other caller reads and writes
\* the new commit, and then the first caller writes the commit it had read
C26_Witness ==
    /\ Len(calls) = 4
    /\ \E p, q \in Callers :
         /\ p # q
         /\ ReadsBy(p) = {1} /\ ReadsBy(q) = {2}
         /\ WritesBy(q) = {3} /\ WritesBy(p) = {4}
         /\ calls[1].ret.pr[1].last_merge_source_commit = Some("c1")
         /\ calls[2].ret.pr[1].last_merge_source_commit = Some("c2")
         /\ calls[3].git_pull_request_to_update["last_merge_source_commit"] = Some("c2")
         /\ ~calls[3].ret.raises
         /\ calls[4].git_pull_request_to_update["last_merge_source_commit"] = Some("c1")
         /\ ~calls[4].ret.raises
         /\ inflight[p].pc = "returned" /\ inflight[q].pc = "returned"
         /\ StartsWith(inflight[p].out.val, <<"Pull request ", "42">>)

-----------------------------------------------------------------------------
(* The empty string is a value: C27 *)

EmptyString == <<>>

\* C27: an update_pull_request call that gives the empty string as title or
\* as description and nothing else is no empty update: it issues exactly one
\* update_pull_request whose payload sets just that field, to the empty
\* string, and it does not report missing update parameters.
C27_EmptyStringIsSupplied ==
    (pc = "done" /\ op.name = "update_pull_request" /\ op.git = "ok")
        => /\ (op.args.title = Some(EmptyString) /\ op.args.description = None)
                => /\ Len(calls) = 1
                   /\ calls[1].api = "update_pull_request"
                   /\ calls[1].git_pull_request_to_update = [title |-> EmptyString]
                   /\ ~Contains(result.val, <<"No update parameters provided">>)
           /\ (op.args.title = None /\ op.args.description = Some(EmptyString))
                => /\ Len(calls) = 1
                   /\ calls[1].api = "update_pull_request"
                   /\ calls[1].git_pull_request_to_update
                        = [description |-> EmptyString]
                   /\ ~Contains(result.val, <<"No update parameters provided">>)

\* an update that gave only the empty title, which the service stored
C27_Witness ==
    /\ pc = "done"
    /\ op.name = "update_pull_request"
    /\ op.git = "ok"
    /\ op.args.title = Some(EmptyString)
    /\ op.args.description = None
    /\ Len(calls) = 1
    /\ calls[1].git_pull_request_to_update = [title |-> EmptyString]
    /\ ~calls[1].ret.raises
    /\ remote.title = EmptyString

-----------------------------------------------------------------------------
(* What a reported completion means: C28 *)

CompletedSuccessfully == Contains(result.val, <<" completed successfully by ">>)

\* the calls of the log that returned without raising
ReturnedCalls(api) == {i \in CallsOf(api) : ~calls[i].ret.raises}

\* the text of a reported completion, from the arguments and from who closed
\* the pull request the write returned
CompletedText(a, closed_by) ==
    <<"Pull request ", IntStr(a.pull_request_id), " completed successfully by ">>
    \o (IF closed_by = None THEN <<"Unknown">> ELSE closed_by[1].display_name)
    \o <<"\n", "Merge strategy: ", a.merge_strategy,
         "\n", "Source branch deleted: ", BoolStr(a.delete_source_branch)>>

\* C28: complete_pull_request returns its completed successfully text exactly
\* when its get_pull_request and its update_pull_request have both returned
\* without raising; the text is made of the arguments and of who closed the
\* returned pull request, whatever the status that pull request carries.
C28_SuccessIffReadAndWriteReturned ==
    (pc = "done" /\ op.name = "complete_pull_request")
        => /\ CompletedSuccessfully
                <=> /\ ReturnedCalls("get_pull_request") # {}
                    /\ ReturnedCalls("update_pull_request") # {}
           /\ CompletedSuccessfully
                => \A i \in ReturnedCalls("update_pull_request") :
                      result = Return(CompletedText(op.args,
                                                    calls[i].ret.pr[1].closed_by))

\* a completion reported as successful although the pull request the write
\* returned, and the one the service holds, is still active
C28_Witness ==
    /\ pc = "done"
    /\ op.name = "complete_pull_request"
    /\ op.git = "ok"
    /\ CompletedSuccessfully
    /\ Len(calls) = 2
    /\ ~calls[2].ret.raises
    /\ calls[2].ret.pr[1].status = "active"
    /\ remote.status = "active"

====
